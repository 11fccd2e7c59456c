------------------------------ MODULE FileStore ------------------------------
(***************************************************************************)
(* What the CP/M routes promise of the files in a disk image, without its  *)
(* directory and its blocks (src/routes/cpm.ts): the image is a map from   *)
(* file names to contents.  A request takes a copy of the map, changes the *)
(* one file it is about, and puts the whole copy back, so of two requests  *)
(* that overlap the later one undoes the earlier.  While the image is      *)
(* being written back it is `torn', and a process that dies then leaves it *)
(* so.                                                                     *)
(***************************************************************************)
CONSTANTS
    File,     \* names of files
    Content,  \* what a file may hold
    Absent,   \* the file is not there: no content
    Req,      \* requests that may be in progress at the same time
    NoMap,    \* no copy is taken
    NoFile    \* no request has come: no name

VARIABLES
    files,  \* what each file of the image holds
    torn,   \* the image is being written, or was left half written
    asked,  \* the file each request is about and what it shall hold
    mine    \* the copy that each request puts back

vars == <<files, torn, asked, mine>>

Wish == [file : File, content : Content \cup {Absent}]
NoWish == [file |-> NoFile, content |-> Absent]

Init ==
    /\ files \in [File -> Content \cup {Absent}]
    /\ torn = FALSE
    /\ asked = [r \in Req |-> NoWish]
    /\ mine = [r \in Req |-> NoMap]

\* A request comes.
Ask(r) ==
    /\ asked[r] = NoWish /\ asked'[r] \in Wish
    /\ asked' = [asked EXCEPT ![r] = asked'[r]]
    /\ UNCHANGED <<torn, mine, files>>

\* It takes its copy and changes its file.
Take(r) ==
    /\ asked[r] # NoWish /\ ~torn
    /\ UNCHANGED <<torn, asked>>
    /\ mine[r] = NoMap
    /\ mine' = [mine EXCEPT ![r] = [files EXCEPT ![asked[r].file] = asked[r].content]]
    /\ UNCHANGED files

\* The image is opened, and no longer whole.
Tear(r) ==
    /\ torn' = TRUE
    /\ UNCHANGED asked
    /\ mine[r] # NoMap
    /\ UNCHANGED <<mine, files>>

PutBack(r) ==
    /\ torn' = FALSE
    /\ asked' = [asked EXCEPT ![r] = NoWish]
    /\ mine[r] # NoMap
    /\ mine' = [mine EXCEPT ![r] = NoMap]
    /\ files' = mine[r]

\* Requests are refused, their writes fail, or the process ends.
GiveUp(lost) ==
    /\ asked' = [r \in Req |-> IF r \in lost THEN NoWish ELSE asked[r]]
    /\ mine' = [r \in Req |-> IF r \in lost THEN NoMap ELSE mine[r]]
    /\ UNCHANGED <<torn, files>>

Next ==
    \/ \E r \in Req : Ask(r) \/ Take(r) \/ Tear(r) \/ PutBack(r)
    \/ \E lost \in SUBSET Req : GiveUp(lost)

Spec == Init /\ [][Next]_vars
=============================================================================
