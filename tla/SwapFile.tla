------------------------------- MODULE SwapFile -------------------------------
(***************************************************************************)
(* The swap file of umalloc.c, as writeDataToSwap fills it.  A record is   *)
(* the first 8 bytes of a header (sizeof(PAGE_HEADER_SIZE) is that of a    *)
(* size) and a page, but the scan for room advances by PAGE_SIZE: a slot   *)
(* is PAGE_SIZE bytes, and the record in it ends 8 bytes into the next     *)
(* one.  The scan reads one byte of each slot and takes the slot if the    *)
(* byte is 0 or past the end of the file; in the latter case it steps back *)
(* one byte it never read, and writes the record one byte too early.       *)
(*                                                                         *)
(* A file is the sequence of its slots up to the last record.  A page is   *)
(* the name <<owner, number>> of the page.                                 *)
(***************************************************************************)
EXTENDS Integers, Sequences, FiniteSetsExt

CONSTANTS SwapRoom,    \* SWAP_PAGE_MAX
          Dense        \* the owners whose pages end in bytes that are not 0

NoPage == <<0, 0>>

(* shifted: the record starts one byte before the slot.  whole: its last   *)
(* bytes are not overwritten by the record of the next slot.               *)
Slot(name, shifted) == [page |-> name, shifted |-> shifted, whole |-> TRUE]
Slots(names) == [page : names, shifted : BOOLEAN, whole : BOOLEAN]
Skipped == [page |-> NoPage, shifted |-> FALSE, whole |-> FALSE]

NewFile == <<>>

(* The byte read in slot i is 0: that of a record on its slot is the low   *)
(* byte of a thread id, that of a record one byte early is the high byte,  *)
(* which is 0 for an id above 0; after the last record it is a byte of the *)
(* end of that record's page.  A skipped slot was not 0 when the record    *)
(* before it was written.                                                  *)
ReadsZeroHigh(file, i) ==          \* a variant that reads the high byte of the id
    \/ i \in DOMAIN file /\ ~file[i].shifted /\ file[i].page[1] > 0
    \/ i = Len(file) + 1 /\ (file = NewFile \/ file[Len(file)].page[1] \notin Dense)
    \/ i = Len(file) + 2
ReadsZero(file, i) ==
    \/ i \in DOMAIN file /\ file[i].shifted /\ file[i].page[1] > 0
    \/ i = Len(file) + 1 /\ (file = NewFile \/ file[Len(file)].page[1] \notin Dense)
    \/ i = Len(file) + 2

FreeSlot(file) == Min({i \in 1 .. Len(file) + 2 : ReadsZero(file, i)})
CanWrite(file) == FreeSlot(file) <= SwapRoom

(* writeDataToSwap when it finds a slot. *)
Written(file, name) ==
    LET i == FreeSlot(file)
        n == Len(file)
    IN  IF i <= n THEN [file EXCEPT ![i] = Slot(name, FALSE)]
        ELSE IF i = n + 2 THEN file \o <<Skipped, Slot(name, TRUE)>>
        ELSE Append([j \in DOMAIN file |-> IF j = n THEN [file[j] EXCEPT !.whole = FALSE]
                                           ELSE file[j]],
                    Slot(name, FALSE))

(* The pages whose records start somewhere in the file. *)
Recorded(file) == {file[i].page : i \in DOMAIN file} \ {NoPage}

(* swapFindOnPageNum: the numbers it compares with those it looks for are  *)
(* not read from the file, they are the address of its buffer.             *)
Found(file, name) == {}
=============================================================================
