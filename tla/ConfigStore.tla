---------------------------- MODULE ConfigStore ----------------------------
(***************************************************************************)
(* The overrides file of the daemon and its backups                        *)
(* (src/services/config-persistence.ts), the routes that change it         *)
(* (src/routes/config.ts), its use at start-up (src/config.ts,             *)
(* src/index.ts) and the pages that edit it                                *)
(* (src/frontend/src/lib/pages/ConfigPage.svelte).                         *)
(*                                                                         *)
(* An action is what the code does between two awaits.  Names lead to      *)
(* inodes; a name may move while a request writes to the inode it led to.  *)
(* A document gives values to some of the keys; a file is a document, or   *)
(* just created, or made of pieces of several writes.                      *)
(***************************************************************************)
EXTENDS Naturals, Sequences, FiniteSets, SequencesExt

CONSTANTS
    Page,        \* pages, each open in a browser, with one request at a time
    Section,     \* sections of the configuration that have a route of their own
    Key, KeysOf, \* keys, and those of each section
    Live,        \* keys that the routes apply to the running daemon
    Reloadable,  \* keys that POST /api/config/reload applies
    Value,       \* values of a key; the baseline gives each key Default
    Default,
    Faults,      \* {"write"} if the disk may refuse a write, or {}
    Meet,        \* may requests overlap?
    Pasts,       \* what earlier runs may have left: documents, newest first
    MaxRequests, \* bound: writes and rollbacks ever requested
    MaxRestarts  \* bound: restarts of the daemon, planned or not

ASSUME ConstantsAssumption ==
    /\ KeysOf \in [Section -> SUBSET Key]
    /\ Live \subseteq Key /\ Reloadable \subseteq Key
    /\ Default \in Value
    /\ Faults \subseteq {"write"} /\ Meet \in BOOLEAN
    /\ MaxRequests \in Nat /\ MaxRestarts \in Nat
    /\ IsFiniteSet(Page)
    /\ \A past \in Pasts :
          /\ past \in Seq(UNION {[d -> Value] : d \in (SUBSET Key) \ {{}}})
          /\ Len(past) <= 4

VARIABLES
    names,    \* the inode each name leads to, 0: no such file
    inodes,   \* what each inode holds
    runtime,  \* deps.runtimeConfig
    epoch,    \* startupEpoch
    clock,    \* stamps given out so far: mtimes never repeat
    page,     \* what each page shows and holds
    job,      \* the request of each page, as far as the daemon is with it
    requests, \* requests made so far
    acked,    \* ghost: the document that the last successful request left
    unsure,   \* ghost: documents of requests that a crash cut off since then
    undo,     \* ghost: the documents that rolling back should find, newest first
    broken,   \* ghost: a crash or a failure has cut a rotation short
    told,     \* ghost: keys of which a response said that they need a restart
    met       \* ghost: two requests have overlapped

store == <<names, inodes, clock>>
ghosts == <<acked, unsure, undo, broken, told, met>>
vars == <<store, runtime, epoch, page, job, requests, ghosts>>

-----------------------------------------------------------------------------
(* Mutations of definitions below: what a plausible slip in the code would do. *)

\* The file is written in place.
MutTarget == 0

\* The last rollback leaves the backup that it restored.
MutSlotAfter(to) == names[to]

\* Only the restart makes a tag stale.
MutETagMatches(p) == job[p].etag.epoch = epoch

\* A live section is saved and not applied.
MutAppliedLive(s) == {}

MAX_BACKUPS == 3
Main == 0
Tmp == 4
Name == 0 .. 4    \* the file, .bak.1 to .bak.3, and .tmp
Bak == 1 .. MAX_BACKUPS

\* Documents: partial functions from keys to values.
Document == UNION {[d -> Value] : d \in SUBSET Key}
Whole(d) == [tag |-> "whole", doc |-> d]
NoDocument == [k \in {} |-> Default]
Created == [tag |-> "created", doc |-> NoDocument]
Torn == [tag |-> "torn", doc |-> NoDocument]
Content == {Whole(d) : d \in Document} \cup {Created, Torn}

\* Names and open handles lead to at most this many inodes.
Inode == 1 .. 5 + Cardinality(Page)

\* { ...current, ...patch }, and the same for the layers.
Merge(lower, upper) ==
    [k \in DOMAIN lower \cup DOMAIN upper |->
        IF k \in DOMAIN upper THEN upper[k] ELSE lower[k]]
Baseline == [k \in Key |-> Default]
Effective(d) == Merge(Baseline, d)

Exists(n) == names[n] # 0
At(n) == inodes[names[n]].content
Readable(n) == Exists(n) /\ At(n).tag = "whole"

\* readCurrentOverride: no file is an empty override.
Override == IF Exists(Main) THEN At(Main) ELSE Whole(NoDocument)

\* A missing file has mtime 0.
ETag == [epoch |-> epoch, mtime |-> IF Exists(Main) THEN inodes[names[Main]].mtime ELSE 0]
NoETag == [epoch |-> 0, mtime |-> 0]

Kind == {"none", "put", "rollback", "reload"}
Pc == {"idle", "stat", "read", "rotate2", "rotate1", "copy", "copying", "open",
       "write", "rename", "shift1", "shift2", "done", "failed"}
Job == [pc : Pc, kind : Kind, section : Section \cup {"none"}, patch : Document,
        etag : [epoch : Nat, mtime : Nat], doc : Document, inode : Inode \cup {0},
        seen : Document]
NoJob == [pc |-> "idle", kind |-> "none", section |-> "none", patch |-> NoDocument,
          etag |-> NoETag, doc |-> NoDocument, inode |-> 0, seen |-> NoDocument]

\* loading: what the page waits for.  seen: ghost, the override when its tag was made.
View == [loading : {"no", "config", "status"}, values : [Key -> Value],
         etag : [epoch : Nat, mtime : Nat], seen : Document]
NewView == [loading |-> "config", values |-> Baseline, etag |-> NoETag, seen |-> NoDocument]

\* An installation that has never saved anything, or one that has.
Init ==
    \E past \in Pasts :
      /\ names = [n \in Name |-> IF n < Len(past) THEN n + 1 ELSE 0]
      /\ inodes = [i \in Inode |-> [content |-> IF i <= Len(past) THEN Whole(past[i]) ELSE Created,
                                    mtime |-> IF i <= Len(past) THEN Len(past) + 1 - i ELSE 0]]
      /\ clock = Len(past)
      /\ acked = IF past = << >> THEN NoDocument ELSE past[1]
      /\ undo = IF past = << >> THEN << >> ELSE Tail(past)
      /\ runtime = Effective(acked)
      /\ epoch = 1
      /\ page = [p \in Page |-> NewView]
      /\ job = [p \in Page |-> NoJob]
      /\ requests = 0
      /\ unsure = {} /\ broken = FALSE /\ told = {} /\ met = FALSE

-----------------------------------------------------------------------------
Busy == {p \in Page : job[p].pc # "idle"}
Goto(p, pc) == job' = [job EXCEPT ![p].pc = pc]

\* An inode that nothing leads to.
FreeInode(i) ==
    /\ \A n \in Name : names[n] # i
    /\ \A p \in Page : job[p].inode # i

\* Inodes that nothing leads to any more hold nothing: fewer states.
Forgotten(nn, jj, ii) ==
    [i \in Inode |-> IF (\E n \in Name : nn[n] = i) \/ (\E p \in Page : jj[p].inode = i)
                     THEN ii[i] ELSE [content |-> Created, mtime |-> 0]]

\* rename(from, to): TRUE if there is something to rename.
Renamed(from, to) ==
    [names EXCEPT ![to] = names[from], ![from] = 0]

-----------------------------------------------------------------------------
(* The page: loadConfig is two requests, one after the other. *)

\* GET /api/config tells what runs, not what is saved.
ConfigLoaded(p) ==
    /\ page[p].loading = "config"
    /\ page' = [page EXCEPT ![p].loading = "status", ![p].values = runtime]
    /\ UNCHANGED <<store, runtime, epoch, job, requests, ghosts>>

\* GET /api/config/status.
StatusLoaded(p) ==
    /\ page[p].loading = "status"
    /\ page' = [page EXCEPT ![p].loading = "no", ![p].etag = ETag, ![p].seen = Override.doc]
    /\ UNCHANGED <<store, runtime, epoch, job, requests, ghosts>>

MayRequest(p) ==
    /\ page[p].loading = "no"
    /\ job[p].pc = "idle"
    /\ Busy = {} \/ Meet
    /\ requests < MaxRequests
    /\ requests' = requests + 1
    /\ met' = (met \/ Busy # {})

\* A save of a section sends all its keys: those the operator edited, the
\* others as the page shows them.
Put(p, s) ==
    /\ MayRequest(p)
    /\ \E patch \in [KeysOf[s] -> Value] :
         /\ \E k \in KeysOf[s] : patch[k] # page[p].values[k]
         /\ job' = [job EXCEPT ![p] = [NoJob EXCEPT !.pc = "stat", !.kind = "put",
                        !.section = s, !.patch = patch, !.etag = page[p].etag,
                        !.seen = page[p].seen]]
    /\ UNCHANGED <<store, runtime, epoch, page, acked, unsure, undo, broken, told>>

Rollback(p) ==
    /\ MayRequest(p)
    /\ Exists(1)
    /\ job' = [job EXCEPT ![p] = [NoJob EXCEPT !.pc = "read", !.kind = "rollback"]]
    /\ UNCHANGED <<store, runtime, epoch, page, acked, unsure, undo, broken, told>>

Reload(p) ==
    /\ MayRequest(p)
    /\ job' = [job EXCEPT ![p] = [NoJob EXCEPT !.pc = "read", !.kind = "reload"]]
    /\ UNCHANGED <<store, runtime, epoch, page, acked, unsure, undo, broken, told>>

-----------------------------------------------------------------------------
(* writePartialConfig and rollbackConfig. *)

\* The guard of If-Match: a stale tag ends the request with 409.
ETagMatches(p) == job[p].etag = ETag

ETagChecked(p) ==
    /\ job[p].pc = "stat"
    /\ Goto(p, IF ETagMatches(p) THEN "read" ELSE "failed")
    /\ UNCHANGED <<store, runtime, epoch, page, requests, ghosts>>

\* An unreadable override fails the request: INVALID_JSON.
OverrideRead(p) ==
    /\ job[p].pc = "read" /\ job[p].kind = "put"
    /\ job' = [job EXCEPT
         ![p].pc = IF Override.tag = "whole" THEN "rotate2" ELSE "failed",
         ![p].doc = IF Override.tag = "whole" THEN Merge(Override.doc, job[p].patch)
                                              ELSE NoDocument]
    /\ UNCHANGED <<store, runtime, epoch, page, requests, ghosts>>

BackupRead(p) ==
    /\ job[p].pc = "read" /\ job[p].kind = "rollback"
    /\ job' = [job EXCEPT
         ![p].pc = IF Readable(1) THEN "open" ELSE "failed",
         ![p].doc = IF Readable(1) THEN At(1).doc ELSE NoDocument]
    /\ UNCHANGED <<store, runtime, epoch, page, requests, ghosts>>

\* The backup that is renamed at each step of rotateBackups, oldest first.
Rotation == [rotate2 |-> 2, rotate1 |-> 1]

Rotated(p) ==
    /\ job[p].pc \in {"rotate2", "rotate1"}
    /\ LET from == Rotation[job[p].pc]
       IN  names' = IF Exists(from) THEN Renamed(from, from + 1) ELSE names
    /\ Goto(p, IF job[p].pc = "rotate2" THEN "rotate1" ELSE "copy")
    /\ inodes' = Forgotten(names', job', inodes)
    /\ UNCHANGED <<clock, runtime, epoch, page, requests, ghosts>>

\* copyFile(main, bak1) makes or truncates its target, then fills it.
CopyBegins(p) ==
    /\ job[p].pc = "copy" /\ Exists(Main)
    /\ \E i \in Inode :
         /\ IF Exists(1) THEN i = names[1] ELSE FreeInode(i) /\ \A j \in Inode : FreeInode(j) => i <= j
         /\ names' = [names EXCEPT ![1] = i]
         /\ inodes' = [inodes EXCEPT ![i].content = Created]
    /\ Goto(p, "copying")
    /\ UNCHANGED <<clock, runtime, epoch, page, requests, ghosts>>

CopyEnds(p) ==
    /\ job[p].pc = "copying"
    /\ inodes' = IF Exists(1) /\ Exists(Main) THEN [inodes EXCEPT ![names[1]].content = At(Main)]
                                              ELSE inodes
    /\ Goto(p, "open")
    /\ UNCHANGED <<names, clock, runtime, epoch, page, requests, ghosts>>

NothingToCopy(p) ==
    /\ job[p].pc = "copy" /\ ~Exists(Main)
    /\ Goto(p, "open")
    /\ UNCHANGED <<store, runtime, epoch, page, requests, ghosts>>

\* The name that atomicWrite opens for writing.
Target == Tmp

\* open(tmp, 'w').
TmpOpened(p) ==
    /\ job[p].pc = "open"
    /\ \E i \in Inode :
         /\ IF Exists(Target) THEN i = names[Target]
                              ELSE FreeInode(i) /\ \A j \in Inode : FreeInode(j) => i <= j
         /\ names' = [names EXCEPT ![Target] = i]
         /\ inodes' = [inodes EXCEPT ![i].content = Created]
         /\ job' = [job EXCEPT ![p].pc = "write", ![p].inode = i]
    /\ UNCHANGED <<clock, runtime, epoch, page, requests, ghosts>>

\* writeFile, sync and close; over what another request has written to the same
\* inode the end of the longer of the two remains.
TmpWritten(p) ==
    /\ job[p].pc = "write"
    /\ \E c \in {Whole(job[p].doc)} \cup
                  (IF inodes[job[p].inode].content = Created THEN {} ELSE {Torn}) :
         inodes' = [inodes EXCEPT ![job[p].inode] = [content |-> c, mtime |-> clock + 1]]
    /\ clock' = clock + 1
    /\ job' = [job EXCEPT ![p].pc = "rename", ![p].inode = 0]
    /\ UNCHANGED <<names, runtime, epoch, page, requests, ghosts>>

\* A write that fails unlinks the name, whosever it is.
WriteFails(p) ==
    /\ job[p].pc = "write" /\ "write" \in Faults
    /\ names' = [names EXCEPT ![Tmp] = 0]
    /\ job' = [job EXCEPT ![p].pc = "failed", ![p].inode = 0]
    /\ inodes' = Forgotten(names', job', inodes)
    /\ broken' = TRUE
    /\ UNCHANGED <<clock, runtime, epoch, page, requests, acked, unsure, undo, told, met>>

\* Where a request goes when its document is in place.
AfterRename(p) == IF job[p].kind = "put" THEN "done" ELSE "shift1"

TmpRenamed(p) ==
    /\ job[p].pc = "rename"
    /\ IF Exists(Target)
       THEN /\ names' = IF Target = Main THEN names ELSE Renamed(Target, Main)
            /\ Goto(p, AfterRename(p))
       ELSE names' = names /\ Goto(p, "failed")
    /\ inodes' = Forgotten(names', job', inodes)
    /\ broken' = (broken \/ ~Exists(Target))
    /\ UNCHANGED <<clock, runtime, epoch, page, requests, acked, unsure, undo, told, met>>

\* The slot that a shift leaves when there is nothing older to put in it.
SlotAfter(to) == IF to = 1 THEN 0 ELSE names[to]

Shifted(p) ==
    /\ job[p].pc \in {"shift1", "shift2"}
    /\ LET to == IF job[p].pc = "shift1" THEN 1 ELSE 2
       IN  names' = IF Exists(to + 1) THEN Renamed(to + 1, to)
                                      ELSE [names EXCEPT ![to] = SlotAfter(to)]
    /\ Goto(p, IF job[p].pc = "shift1" THEN "shift2" ELSE "done")
    /\ inodes' = Forgotten(names', job', inodes)
    /\ UNCHANGED <<clock, runtime, epoch, page, requests, ghosts>>

-----------------------------------------------------------------------------
(* The ends of a request. *)

\* The keys whose new values a successful write hands to the running daemon.
AppliedLive(s) == KeysOf[s] \cap Live

Undone(d) == SubSeq(<<d>> \o undo, 1, IF Len(undo) < MAX_BACKUPS THEN Len(undo) + 1
                                                                ELSE MAX_BACKUPS)

\* A page shows what a live toggle did and otherwise asks again; the tag of the
\* response serves the next section of the same save.
Answered(p) ==
    \E more \in BOOLEAN :
      page' = [page EXCEPT
        ![p].loading = IF more THEN "no" ELSE "config",
        ![p].etag = IF more THEN [epoch |-> page[p].etag.epoch, mtime |-> ETag.mtime] ELSE @,
        ![p].seen = IF more THEN Override.doc ELSE @]

PutSucceeds(p) ==
    /\ job[p].pc = "done" /\ job[p].kind = "put"
    /\ runtime' = [k \in Key |-> IF k \in AppliedLive(job[p].section) THEN job[p].patch[k]
                                                                      ELSE runtime[k]]
    /\ told' = told \cup (KeysOf[job[p].section] \ Live)
    /\ undo' = IF undo = << >> /\ acked = NoDocument THEN << >> ELSE Undone(acked)
    /\ acked' = job[p].doc /\ unsure' = {}
    /\ Answered(p)
    /\ job' = [job EXCEPT ![p] = NoJob]
    /\ UNCHANGED <<store, epoch, requests, broken, met>>

\* "restartRequired: true": the running daemon keeps what it has.
RollbackSucceeds(p) ==
    /\ job[p].pc = "done" /\ job[p].kind = "rollback"
    /\ told' = Key
    /\ undo' = IF undo = << >> THEN << >> ELSE Tail(undo)
    /\ acked' = job[p].doc /\ unsure' = {}
    /\ page' = [page EXCEPT ![p].loading = "config"]
    /\ job' = [job EXCEPT ![p] = NoJob]
    /\ UNCHANGED <<store, runtime, epoch, requests, broken, met>>

\* Reads the file, which fails if it is torn, and applies the keys it may.
ReloadEnds(p) ==
    /\ job[p].pc = "read" /\ job[p].kind = "reload"
    /\ runtime' = IF Override.tag = "whole"
                  THEN [k \in Key |-> IF k \in Reloadable THEN Effective(Override.doc)[k]
                                                          ELSE runtime[k]]
                  ELSE runtime
    /\ told' = IF Override.tag = "whole" THEN told \ Reloadable ELSE told
    /\ page' = [page EXCEPT ![p].loading = "config"]
    /\ job' = [job EXCEPT ![p] = NoJob]
    /\ UNCHANGED <<store, epoch, requests, acked, unsure, undo, broken, met>>

\* An error: the page asks for the state of things and keeps its edits.
RequestFails(p) ==
    /\ job[p].pc = "failed"
    /\ page' = [page EXCEPT ![p].loading = "config"]
    /\ job' = [job EXCEPT ![p] = NoJob]
    /\ UNCHANGED <<store, runtime, epoch, requests, ghosts>>

-----------------------------------------------------------------------------
(* The process ends, at any moment, and is started again. *)

\* loadOverridesFile: the file, or, if it is unreadable, the newest readable backup.
Loaded ==
    IF ~Exists(Main) THEN NoDocument
    ELSE IF Readable(Main) THEN At(Main).doc
    ELSE IF \E b \in Bak : Readable(b)
         THEN At(CHOOSE b \in Bak : Readable(b) /\ \A a \in Bak : Readable(a) => b <= a).doc
         ELSE NoDocument

\* Requests that had begun to change the files.
Writing == {p \in Page : job[p].pc \notin {"idle", "stat", "read", "failed"}}

Restart ==
    /\ epoch <= MaxRestarts
    /\ epoch' = epoch + 1
    /\ runtime' = Effective(Loaded)
    /\ job' = [p \in Page |-> NoJob]
    /\ inodes' = Forgotten(names, job', inodes)
    /\ page' = [p \in Page |-> IF p \in Busy THEN [page[p] EXCEPT !.loading = "config"]
                                             ELSE page[p]]
    /\ unsure' = unsure \cup {job[p].doc : p \in Writing}
    /\ broken' = (broken \/ Writing # {})
    /\ told' = {}
    /\ UNCHANGED <<names, clock, requests, acked, undo, met>>

-----------------------------------------------------------------------------
PageStep(p) ==
    \/ ConfigLoaded(p) \/ StatusLoaded(p)
    \/ \E s \in Section : Put(p, s)
    \/ Rollback(p) \/ Reload(p)

RequestStep(p) ==
    \/ ETagChecked(p) \/ OverrideRead(p) \/ BackupRead(p)
    \/ Rotated(p) \/ CopyBegins(p) \/ CopyEnds(p) \/ NothingToCopy(p)
    \/ TmpOpened(p) \/ TmpWritten(p) \/ WriteFails(p) \/ TmpRenamed(p) \/ Shifted(p)
    \/ PutSucceeds(p) \/ RollbackSucceeds(p) \/ ReloadEnds(p) \/ RequestFails(p)

Next == Restart \/ \E p \in Page : PageStep(p) \/ RequestStep(p)

Spec == Init /\ [][Next]_vars

-----------------------------------------------------------------------------
(* Properties. *)

\* Types; and no inode has two names: the code moves files and makes no links.
ConfigTypeOK ==
    /\ names \in [Name -> Inode \cup {0}]
    /\ \A m, n \in Name : names[m] = names[n] /\ names[m] # 0 => m = n
    /\ inodes \in [Inode -> [content : Content, mtime : Nat]]
    /\ runtime \in [Key -> Value]
    /\ epoch \in 1 .. MaxRestarts + 1 /\ clock \in Nat
    /\ page \in [Page -> View] /\ job \in [Page -> Job]
    /\ requests \in 0 .. MaxRequests
    /\ acked \in Document /\ unsure \subseteq Document
    /\ undo \in Seq(Document) /\ told \subseteq Key
    /\ broken \in BOOLEAN /\ met \in BOOLEAN

\* As long as requests do not overlap, the file is whole at every moment, so that a
\* process that is killed anywhere finds the document of the last request that was
\* acknowledged, or of one that was cut off: the temporary file and its rename.
AcknowledgedConfigSurvives ==
    ~met => /\ Override.tag = "whole"
            /\ Override.doc \in {acked} \cup unsure \cup {job[p].doc : p \in Writing}

\* The backups are the last documents before the current one, newest first, and
\* rolling back walks through them: none twice, none left out.
BackupsAreHistory ==
    /\ ConfigTypeOK
    /\ ~met /\ ~broken /\ Busy = {} =>
         \A b \in Bak : IF b <= Len(undo) THEN Readable(b) /\ At(b).doc = undo[b]
                                          ELSE ~Exists(b)

\* A save that carries a tag replaces the document that its page had seen the tag of:
\* a change that the page does not know of is answered with 409.
NoBlindOverwrite ==
    [][\A p \in Page : job[p].kind = "put" /\ TmpRenamed(p) /\ ~met =>
          Override.doc = job[p].seen]_vars

\* What runs is what is saved, but for keys of which a response said that they
\* need a restart.
RuntimeFollowsFile ==
    ~met /\ Busy = {} =>
        \A k \in Key \ told : Override.tag = "whole" => runtime[k] = Effective(Override.doc)[k]
=============================================================================
