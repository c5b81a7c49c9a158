----------------------------- MODULE ArtifactStore -----------------------------
(***************************************************************************)
(* The file-backed artifact store: what the processes that hold a store    *)
(* instance make of one run directory. Each instance keeps its active run, *)
(* a chain of manifest writes and a chain of appends for each stream; a    *)
(* crash loses them, and the files stay as they are. A file holds a version,*)
(* the number of the request that wrote it. Requests are numbered as they  *)
(* are made, so that a chain, whose links run in that order, is the set of *)
(* its links.                                                              *)
(***************************************************************************)
EXTENDS Integers, Sequences, FiniteSets

CONSTANTS
  Instances,   \* the processes that hold a store instance
  Cases,       \* the cases of the run
  Streams,     \* append-only files, each of one case
  MaxRequests, \* bound: requests that are made
  MaxCrashes   \* bound: crashes

ASSUME StoreAssumption ==
  /\ IsFiniteSet(Instances) /\ IsFiniteSet(Cases) /\ IsFiniteSet(Streams)
  /\ "run" \notin Cases /\ Cases \cap Streams = {}
  /\ MaxRequests \in Nat /\ MaxCrashes \in Nat

Files == Cases \cup {"run"}    \* result.json of a case, and run.json
Requests == 1..MaxRequests

VARIABLES
  dirs,      \* the directories that exist: "run", then those of the cases
  content,   \* the version each file holds, 0 while there is none, -1 a part of one
  temps,     \* temporary files on disk
  log,       \* what each stream holds: whole records, and torn ones
  active,    \* the store instances with an active run
  starting,  \* how far startRun is in an instance
  chain,     \* the manifest writes an instance has queued
  appends,   \* the appends an instance has queued for a stream
  writing,   \* the atomic replacements under way
  requests,  \* history: what each request asked for, in order
  told,      \* history: how each request was answered
  crashes

diskVars == <<dirs, content, temps, log>>
memoryVars == <<active, starting, chain, appends, writing>>
historyVars == <<requests, told, crashes>>
storeVars == <<diskVars, memoryVars, historyVars>>

Kinds == {"start", "result", "finalize", "append"}
Phases == {"begun", "opened", "synced", "renaming"}

\* The one type invariant.
StoreTypeOK ==
  /\ dirs \subseteq Files
  /\ content \in [Files -> {-1, 0} \cup Requests]
  /\ temps \subseteq Requests
  /\ log \in [Streams -> Seq([rec : Requests, whole : BOOLEAN])]
  /\ active \subseteq Instances
  /\ starting \in [Instances -> {"idle", "made", "queued"}]
  /\ chain \in [Instances -> SUBSET Requests]
  /\ appends \in [Instances -> [Streams -> SUBSET Requests]]
  /\ writing \in [Requests -> {"none"} \cup Phases]
  /\ requests \in Seq([kind : Kinds, by : Instances, file : Files \cup Streams])
  /\ Len(requests) <= MaxRequests
  /\ told \in [Requests -> {"nothing", "ok", "failed"}]
  /\ crashes \in 0..MaxCrashes

StoreInit ==
  /\ dirs = {} /\ content = [f \in Files |-> 0] /\ temps = {}
  /\ log = [s \in Streams |-> <<>>]
  /\ active = {} /\ starting = [p \in Instances |-> "idle"]
  /\ chain = [p \in Instances |-> {}]
  /\ appends = [p \in Instances |-> [s \in Streams |-> {}]]
  /\ writing = [n \in Requests |-> "none"]
  /\ requests = <<>> /\ told = [n \in Requests |-> "nothing"] /\ crashes = 0

New == Len(requests) + 1
Ask(kind, p, f) ==
  /\ New <= MaxRequests
  /\ requests' = Append(requests, [kind |-> kind, by |-> p, file |-> f])
Tell(n, answer) == told' = [told EXCEPT ![n] = answer]

-----------------------------------------------------------------------------
(* The operations. Validation, redaction and serialization may refuse each *)
(* of them before anything is touched, which is no request then.           *)

\* mkdir of the run directory is exclusive, also among processes.
StartRun(p) ==
  /\ starting[p] = "idle" /\ p \notin active
  /\ "run" \notin dirs
  /\ dirs' = dirs \cup {"run"}
  /\ starting' = [starting EXCEPT ![p] = "made"]
  /\ UNCHANGED <<content, temps, log, active, chain, appends, writing, historyVars>>

MakeCaseDirectory(p) ==
  /\ starting[p] = "made"
  /\ \E c \in Cases \ dirs : dirs' = dirs \cup {c}
  /\ UNCHANGED <<content, temps, log, memoryVars, historyVars>>

\* A directory that cannot be made ends startRun; what was made stays.
FailStart(p) ==
  /\ starting[p] = "made" /\ ~Cases \subseteq dirs
  /\ starting' = [starting EXCEPT ![p] = "idle"]
  /\ UNCHANGED <<diskVars, active, chain, appends, writing, historyVars>>

QueueManifestWrite(p, n) == chain' = [chain EXCEPT ![p] = @ \cup {n}]

WriteManifest(p) ==
  /\ starting[p] = "made" /\ Cases \subseteq dirs
  /\ Ask("start", p, "run") /\ QueueManifestWrite(p, New)
  /\ starting' = [starting EXCEPT ![p] = "queued"]
  /\ UNCHANGED <<diskVars, active, appends, writing, told, crashes>>

\* Without the active run a command has read the result of a finalized one first.
IsResult(n) == n > 0 /\ requests[n].kind = "finalize"
MayRewrite(p) == p \in active \/ IsResult(content["run"])

\* finalizeCase needs the active run, replaceCaseResult the case's directory.
WriteCaseResult(p, c) ==
  /\ MayRewrite(p) /\ c \in dirs
  /\ Ask("result", p, c)
  /\ writing' = [writing EXCEPT ![New] = "begun"]
  /\ UNCHANGED <<diskVars, active, starting, chain, appends, told, crashes>>

FinalizeRun(p) ==
  /\ MayRewrite(p) /\ "run" \in dirs
  /\ Ask("finalize", p, "run") /\ QueueManifestWrite(p, New)
  /\ UNCHANGED <<diskVars, active, starting, appends, writing, told, crashes>>

AppendRecord(p, s) ==
  /\ p \in active
  /\ Ask("append", p, s)
  /\ appends' = [appends EXCEPT ![p][s] = @ \cup {New}]
  /\ UNCHANGED <<diskVars, active, starting, chain, writing, told, crashes>>

-----------------------------------------------------------------------------
(* The chains.                                                             *)

\* A link runs when the ones before it are settled, well or not.
First(links) == {n \in links : \A m \in links : n <= m}

\* Mutant: appendFile is called at once, and the system orders the appends.
NextAppends(p, s) == appends[p][s]

NextAppend(p, s) == First(appends[p][s])

\* appendFile ends; one that fails may have written a part of its line.
RunAppend(p, s) ==
  \E n \in NextAppend(p, s) :
    /\ appends' = [appends EXCEPT ![p][s] = @ \ {n}]
    /\ \/ Tell(n, "ok") /\ log' = [log EXCEPT ![s] = Append(@, [rec |-> n, whole |-> TRUE])]
       \/ Tell(n, "failed") /\ log' = [log EXCEPT ![s] = Append(@, [rec |-> n, whole |-> FALSE])]
       \/ Tell(n, "failed") /\ UNCHANGED log
    /\ UNCHANGED <<dirs, content, temps, active, starting, chain, writing, requests, crashes>>

BeginManifest(p) ==
  /\ \E n \in First(chain[p]) :
       writing[n] = "none" /\ writing' = [writing EXCEPT ![n] = "begun"]
  /\ UNCHANGED <<diskVars, active, starting, chain, appends, historyVars>>

-----------------------------------------------------------------------------
(* atomicReplaceFile.                                                      *)

By(n) == requests[n].by
File(n) == requests[n].file
Phase(n, from, to) == writing[n] = from /\ writing' = [writing EXCEPT ![n] = to]

\* A replacement is over: the next link of the chain may run, and startRun and
\* finalizeRun go on with the answer.
SettleWrite(n, answer) ==
  /\ Tell(n, answer)
  /\ chain' = [chain EXCEPT ![By(n)] = @ \ {n}]
  /\ starting' = IF requests[n].kind = "start" THEN [starting EXCEPT ![By(n)] = "idle"] ELSE starting
  /\ active' = CASE requests[n].kind = "start" /\ answer = "ok" -> active \cup {By(n)}
                 [] requests[n].kind = "finalize" /\ answer = "ok" -> active \ {By(n)}
                 [] OTHER -> active

\* Mutant: the file itself is opened for writing, which empties it.
OpenInPlace(n) ==
  /\ Phase(n, "begun", "opened")
  /\ content' = [content EXCEPT ![File(n)] = -1]
  /\ UNCHANGED <<dirs, temps, log, active, starting, chain, appends, historyVars>>

OpenTemporary(n) ==
  /\ Phase(n, "begun", "opened")
  /\ temps' = temps \cup {n}
  /\ UNCHANGED <<dirs, content, log, active, starting, chain, appends, historyVars>>

SyncTemporary(n) ==
  /\ Phase(n, "opened", "synced")
  /\ UNCHANGED <<diskVars, active, starting, chain, appends, historyVars>>

Rename(n) ==
  /\ Phase(n, "synced", "renaming")
  /\ content' = [content EXCEPT ![File(n)] = n]
  /\ temps' = temps \ {n}
  /\ UNCHANGED <<dirs, log, active, starting, chain, appends, historyVars>>

\* rename has returned.
EndReplacement(n) ==
  /\ Phase(n, "renaming", "none")
  /\ SettleWrite(n, "ok")
  /\ UNCHANGED <<diskVars, appends, requests, crashes>>

\* Opening fails and leaves nothing, writing fails and leaves the temporary file,
\* renaming fails and removes it, when it can.
FailReplacement(n) ==
  /\ \/ Phase(n, "begun", "none") /\ UNCHANGED temps
     \/ Phase(n, "opened", "none") /\ UNCHANGED temps
     \/ Phase(n, "synced", "none") /\ temps' \in {temps, temps \ {n}}
  /\ SettleWrite(n, "failed")
  /\ UNCHANGED <<dirs, content, log, appends, requests, crashes>>

-----------------------------------------------------------------------------
\* A crash keeps the disk; an append under way may be there, in part or whole.
Crash(p) ==
  /\ crashes < MaxCrashes /\ crashes' = crashes + 1
  /\ \/ UNCHANGED log
     \/ \E s \in Streams, whole \in BOOLEAN :
          \E n \in NextAppend(p, s) :
            log' = [log EXCEPT ![s] = Append(@, [rec |-> n, whole |-> whole])]
  /\ active' = active \ {p}
  /\ starting' = [starting EXCEPT ![p] = "idle"]
  /\ chain' = [chain EXCEPT ![p] = {}]
  /\ appends' = [appends EXCEPT ![p] = [s \in Streams |-> {}]]
  /\ writing' = [n \in Requests |-> IF n \in DOMAIN requests /\ By(n) = p THEN "none" ELSE writing[n]]
  /\ UNCHANGED <<dirs, content, temps, requests, told>>

AtomicReplaceFile(n) ==
  \/ OpenTemporary(n) \/ SyncTemporary(n) \/ Rename(n) \/ EndReplacement(n) \/ FailReplacement(n)

StoreNext ==
  \/ \E p \in Instances :
       \/ StartRun(p) \/ MakeCaseDirectory(p) \/ FailStart(p) \/ WriteManifest(p)
       \/ FinalizeRun(p) \/ BeginManifest(p) \/ Crash(p)
       \/ \E c \in Cases : WriteCaseResult(p, c)
       \/ \E s \in Streams : AppendRecord(p, s) \/ RunAppend(p, s)
  \/ \E n \in DOMAIN requests : AtomicReplaceFile(n)

StoreSpec == StoreInit /\ [][StoreNext]_storeVars

-----------------------------------------------------------------------------
(* Reading, by a later command.                                            *)

ReadRunManifest == IF content["run"] > 0 THEN "ok" ELSE "failed"
ReadRunResult == IF IsResult(content["run"]) THEN "ok" ELSE "failed"
ReadCaseResult(c) == IF content[c] > 0 THEN "ok" ELSE "failed"

\* One torn line makes the whole stream unreadable.
ReadEvents(s) ==
  IF \A i \in DOMAIN log[s] : log[s][i].whole
  THEN [i \in DOMAIN log[s] |-> log[s][i].rec] ELSE <<>>

Answered(kind, answer) ==
  {n \in DOMAIN requests : requests[n].kind = kind /\ told[n] = answer}

\* A stream holds every acknowledged append whole, each append at most once, in
\* the order of the calls, also after a link of the chain failed.
AppendsInOrder ==
  \A s \in Streams :
    /\ \A i, j \in DOMAIN log[s] : i < j => log[s][i].rec < log[s][j].rec
    /\ \A n \in Answered("append", "ok") :
         File(n) = s => \E i \in DOMAIN log[s] : log[s][i] = [rec |-> n, whole |-> TRUE]

\* What was acknowledged stays readable, whatever fails or crashes afterwards and
\* whichever command rewrites it, though a line torn by a failed append or a crash
\* makes its stream unreadable; what was refused has changed nothing; and an
\* instance's earlier manifest never replaces its later one.
AcknowledgedIsReadable ==
  /\ AppendsInOrder
  /\ Answered("start", "ok") # {} => ReadRunManifest = "ok"
  /\ Answered("finalize", "ok") # {} => ReadRunResult = "ok"
  /\ \A n \in Answered("result", "ok") : ReadCaseResult(File(n)) = "ok"
  /\ crashes = 0 /\ Answered("append", "failed") = {} =>
       \A n \in Answered("append", "ok") :
         \E i \in DOMAIN ReadEvents(File(n)) : ReadEvents(File(n))[i] = n
  /\ \A n \in DOMAIN requests : told[n] = "failed" /\ File(n) \in Files => content[File(n)] # n
  /\ \A n \in Answered("finalize", "ok") : content["run"] >= n \/ By(content["run"]) # By(n)
=============================================================================
