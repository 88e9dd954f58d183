------------------------------ MODULE Listing -------------------------------
(* The page a folder is shown as (simple-file-service/folder.c): head, link to  *)
(* the folder above, folders, files and tail, poured into one buffer after      *)
(* another as nghttp2 asks for data.                                            *)
EXTENDS Integers, Sequences, SequencesExt

CONSTANTS BufSize,    \* SFS_PREFEREC_BUFFER_SIZE
          PieceSize,  \* size of head, upper link and tail
          FolderNames, \* names of entries
          Folders,    \* folders: the entries as readdir delivers them
          Offers      \* how many times nghttp2 offers a buffer of that size

Entries == [kind : STRING, size : Nat, name : FolderNames]

ASSUME ListingAssumption ==
  /\ BufSize \in Nat /\ PieceSize \in Nat /\ Offers \subseteq Nat
  /\ \A f \in Folders : f \in Seq(Entries)

VARIABLES
  folder, upper,  \* what is shown, and whether it has a link to the folder above
  full,           \* how many buffers of the preferred size there will be
  taken,          \* how many there were
  stat,           \* dir_output_stat
  pos,            \* position of readdir
  page,           \* what was handed to nghttp2
  buf, room,      \* contents of the buffer and the room in it; -1 without a buffer
  eof             \* NGHTTP2_DATA_FLAG_EOF

listVars == <<folder, upper, full, taken, stat, pos, page, buf, room, eof>>

ListInit ==
  /\ folder \in Folders /\ upper \in BOOLEAN /\ full \in Offers
  /\ taken = 0 /\ stat = "HEAD" /\ pos = 0
  /\ page = <<>> /\ buf = <<>> /\ room = -1 /\ eof = FALSE

Piece(name) == <<name, 0>>     \* entries are <<kind, number>>

\* snprintf needs room for one byte more than it counts.
Fits(size) == size < room

\* A positive result: the loop of sfs_read_local_folder_cb goes on behind it.
Put(name, size, next) ==
  /\ buf' = Append(buf, name) /\ room' = room - size /\ stat' = next
  /\ UNCHANGED <<folder, upper, full, taken, page, eof>>

\* -1: the loop goes on.
Again(next) ==
  /\ stat' = next
  /\ UNCHANGED <<folder, upper, full, taken, page, buf, room, eof>>

\* -2: the buffer is handed over and stat says how to go on with the next one.
HandOver(next, end) ==
  /\ page' = page \o buf /\ buf' = <<>> /\ room' = -1
  /\ stat' = next /\ eof' = end
  /\ UNCHANGED <<folder, upper, full, taken>>

\* -3, and every other failure: the end, with nothing of this buffer.
Failed ==
  /\ eof' = TRUE /\ buf' = <<>> /\ room' = -1
  /\ UNCHANGED <<folder, upper, full, taken, stat, page>>

Fixed(name, next) ==
  /\ IF Fits(PieceSize) THEN Put(name, PieceSize, next) ELSE Failed
  /\ UNCHANGED pos

\* SFS_OUTPUT_DIR and SFS_OUTPUT_FILE: the next entry of that kind; one that does
\* not fit waits for the next buffer, and is tried there once.
\* Mutant: the entry that waits is taken for the next one.
EntryForgotten(kind, cont, next) ==
  IF pos >= Len(folder) THEN Again(next) /\ pos' = 0
  ELSE LET e == folder[pos + 1] IN
       /\ pos' = pos + 1
       /\ IF e.kind # kind THEN Again(stat)
          ELSE IF Fits(e.size) THEN Put(e.name, e.size, stat) ELSE HandOver(stat, FALSE)
Entry(kind, cont, next) ==
  IF pos >= Len(folder) THEN Again(next) /\ pos' = 0
  ELSE LET e == folder[pos + 1] IN
       /\ pos' = pos + 1
       /\ IF e.kind # kind THEN Again(stat)
          ELSE IF Fits(e.size) THEN Put(e.name, e.size, stat) ELSE HandOver(cont, FALSE)

EntryAgain(next) ==
  LET e == folder[pos] IN
  /\ IF Fits(e.size) THEN Put(e.name, e.size, next) ELSE Failed
  /\ UNCHANGED pos

\* sfs_read_local_folder_output_one_item, in the loop of sfs_read_local_folder_cb.
OutputOneItem ==
  /\ ~eof /\ room >= 0
  /\ \/ stat = "HEAD" /\ Fixed(Piece("head"), "GO_UPPER")
     \/ stat = "GO_UPPER" /\ upper /\ Fixed(Piece("upper"), "DIR")
     \/ stat = "GO_UPPER" /\ ~upper /\ Again("DIR") /\ UNCHANGED pos
     \/ stat = "DIR" /\ Entry("dir", "DIR_CONT", "FILE")
     \/ stat = "DIR_CONT" /\ EntryAgain("DIR")
     \/ stat = "FILE" /\ Entry("file", "FILE_CONT", "TAIL")
     \/ stat = "FILE_CONT" /\ EntryAgain("FILE")
     \/ stat = "TAIL" /\ Fixed(Piece("tail"), "FINISHED")
     \/ stat = "FINISHED" /\ HandOver("FINISHED", TRUE) /\ UNCHANGED pos

\* sfs_read_local_folder_cb is called; a buffer that is shorter ends the page.
OfferBuffer ==
  /\ ~eof /\ room < 0
  /\ IF taken < full THEN taken' = taken + 1 /\ room' = BufSize /\ eof' = FALSE
     ELSE taken' = taken /\ room' = room /\ eof' = TRUE
  /\ UNCHANGED <<folder, upper, full, stat, pos, page, buf>>

ListNext == OutputOneItem \/ OfferBuffer

ListSpec == ListInit /\ [][ListNext]_listVars

-----------------------------------------------------------------------------
\* The names of the entries of a kind among the first k entries, for each k.
Picked(f, kind) ==
  LET pick[k \in 0 .. Len(f)] ==
        IF k = 0 THEN <<>>
        ELSE IF f[k].kind = kind THEN Append(pick[k - 1], f[k].name) ELSE pick[k - 1]
  IN pick

WholePage ==
  <<Piece("head")>> \o (IF upper THEN <<Piece("upper")>> ELSE <<>>)
    \o Picked(folder, "dir")[Len(folder)] \o Picked(folder, "file")[Len(folder)] \o <<Piece("tail")>>

\* The page of a folder shows its entries once each, folders first, in the order they
\* are read, however they fall into buffers; it is cut off only where nghttp2 offers
\* a short buffer, where an entry is larger than a buffer, or where the tail does not
\* fit behind the last entry: then the entries of that buffer are lost with it.
ListingInOrder ==
  LET enough == /\ full > Len(folder) /\ 2 * PieceSize < BufSize
                /\ \A i \in 1 .. Len(folder) : folder[i].size < BufSize
  IN /\ IsPrefix(page, WholePage)
     /\ eof /\ stat = "FINISHED" => page = WholePage
     /\ eof /\ enough => stat \in {"FINISHED", "TAIL"}
=============================================================================
