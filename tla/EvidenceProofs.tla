------------------------------ MODULE EvidenceProofs ------------------------------
(***************************************************************************)
(* What the components promise that write a run's evidence: the artifact   *)
(* store, the session of an agent, the calls of a model, the redaction of  *)
(* a stream, each by itself and for any values of its constants.           *)
(***************************************************************************)
EXTENDS EvidenceMC, FiniteSetTheorems, WellFoundedInduction, TLAPS

-----------------------------------------------------------------------------
(***************************************************************************)
(* What the artifact store promises of what it acknowledged, for any store *)
(* instances, cases and streams, any number of requests and of crashes:    *)
(* AcknowledgedIsReadable. It rests on the exclusive mkdir of the run      *)
(* directory, which only one instance ever wins, so that one instance      *)
(* alone appends; on the chains, whose first link alone is under way; and  *)
(* on rename, which puts a whole version in the place of another.          *)
(***************************************************************************)

Manifests == {"start", "finalize"}
Kind(n) == requests[n].kind
Known == DOMAIN requests

\* A request names the file its kind writes, and one that was not made has no answer.
RequestsFit ==
  /\ \A n \in Known :
       /\ Kind(n) \in Manifests => File(n) = "run"
       /\ Kind(n) = "result" => File(n) \in Cases
       /\ Kind(n) = "append" => File(n) \in Streams
  /\ \A n \in Requests \ Known : told[n] = "nothing"

\* What is queued has not been answered.
ChainsFit ==
  \A p \in Instances : \A n \in chain[p] :
    n \in Known /\ By(n) = p /\ Kind(n) \in Manifests /\ told[n] = "nothing"

AppendsFit ==
  \A p \in Instances : \A s \in Streams : \A n \in appends[p][s] :
    n \in Known /\ Kind(n) = "append" /\ File(n) = s /\ told[n] = "nothing"

\* Nor has what is under way; a manifest that is written is the first of its chain.
WritesFit ==
  \A n \in Requests : writing[n] # "none" =>
    /\ n \in Known /\ Kind(n) # "append" /\ told[n] = "nothing"
    /\ Kind(n) \in Manifests => n \in First(chain[By(n)])

\* The manifests an instance was answered came before those in its chain.
ChainsInOrder ==
  \A n \in Known : Kind(n) \in Manifests /\ told[n] # "nothing" =>
    \A m \in chain[By(n)] : n < m

\* An instance that starts the run, has it active or appends to it.
Runs(p) == p \in active \/ starting[p] # "idle" \/ \E s \in Streams : appends[p][s] # {}

OneRunner ==
  /\ \A p \in Instances : Runs(p) => "run" \in dirs
  /\ \A p, q \in Instances : Runs(p) /\ Runs(q) => p = q

\* Until the run is started nobody has it active or finalizes it.
StartsFirst ==
  /\ \A n \in Known : Kind(n) = "start" /\ n \in chain[By(n)] =>
       /\ starting[By(n)] = "queued"
       /\ \A m \in chain[By(n)] : Kind(m) = "start" => m = n
  /\ "run" \notin dirs \/ (\E p \in Instances : starting[p] # "idle") =>
       active = {} /\ \A n \in Known : Kind(n) # "finalize"

\* A file holds nothing, or the whole of a version that was renamed into place and
\* not refused.
Whole(n, f) ==
  /\ n \in Known /\ File(n) = f /\ Kind(n) # "append" /\ told[n] # "failed"
  /\ writing[n] \in {"none", "renaming"}
  /\ writing[n] = "none" => n \notin chain[By(n)]

FilesWhole == \A f \in Files : content[f] # 0 => Whole(content[f], f)

\* A stream is in order, and ahead of what is still to be appended to it.
StreamsInOrder ==
  \A s \in Streams :
    /\ \A i \in DOMAIN log[s] :
         /\ log[s][i].rec \in Known
         /\ \A p \in Instances : \A n \in appends[p][s] : log[s][i].rec < n
    /\ \A i, j \in DOMAIN log[s] : i < j => log[s][i].rec < log[s][j].rec

StreamsWhole ==
  crashes = 0 /\ Answered("append", "failed") = {} =>
    \A s \in Streams : \A i \in DOMAIN log[s] : log[s][i].whole

\* What was acknowledged, or renamed and is about to be, is there.
AppendedIsThere ==
  \A n \in Known : Kind(n) = "append" /\ told[n] = "ok" =>
    \E i \in DOMAIN log[File(n)] : log[File(n)][i] = [rec |-> n, whole |-> TRUE]

Landed(n) == told[n] = "ok" \/ writing[n] = "renaming"

WrittenIsThere ==
  \A n \in Known : Kind(n) # "append" /\ Landed(n) => content[File(n)] # 0

ResultStands ==
  \A n \in Known : Kind(n) = "finalize" /\ Landed(n) =>
    /\ content["run"] # 0 /\ Kind(content["run"]) = "finalize"
    /\ content["run"] >= n \/ By(content["run"]) # By(n)

StoreInv ==
  /\ StoreTypeOK /\ RequestsFit /\ ChainsFit /\ AppendsFit /\ WritesFit /\ ChainsInOrder
  /\ OneRunner /\ StartsFirst /\ FilesWhole /\ StreamsInOrder /\ StreamsWhole
  /\ AppendedIsThere /\ WrittenIsThere /\ ResultStands

-----------------------------------------------------------------------------
(* What the steps do to the requests and the streams.                      *)

\* A new request has the next number, and leaves the others as they were.
LEMMA AskFits ==
  ASSUME StoreTypeOK, NEW kind \in Kinds, NEW p \in Instances, NEW f \in Files \cup Streams,
         Ask(kind, p, f)
  PROVE  /\ New \in Requests /\ New \notin Known /\ Known' = Known \cup {New}
         /\ \A n \in Known : requests'[n] = requests[n] /\ n < New /\ n \in Requests
         /\ requests'[New] = [kind |-> kind, by |-> p, file |-> f]
         /\ requests' \in Seq([kind : Kinds, by : Instances, file : Files \cup Streams])
         /\ Len(requests') <= MaxRequests
<1>. DEFINE R == [kind : Kinds, by : Instances, file : Files \cup Streams]
            r == [kind |-> kind, by |-> p, file |-> f]
<1>1. r \in R  OBVIOUS
<1>2. requests \in Seq(R) /\ Len(requests) \in Nat /\ MaxRequests \in Nat
  BY StoreAssumption DEF StoreTypeOK, StoreAssumption
<1>3. requests' = Append(requests, r) /\ New = Len(requests) + 1 /\ New <= MaxRequests
  BY DEF Ask, New
<1>. HIDE DEF R, r
<1>4. /\ requests' \in Seq(R) /\ Len(requests') = New
      /\ \A i \in 1..Len(requests) : requests'[i] = requests[i]
      /\ requests'[New] = r
  BY <1>1, <1>2, <1>3
<1>5. Known = 1..Len(requests) /\ Known' = 1..New
  BY <1>2, <1>3, <1>4 DEF Known
<1>. QED  BY <1>2, <1>3, <1>4, <1>5 DEF Requests, R, r

\* A record is appended behind those of its stream.
LEMMA LogFits ==
  ASSUME StoreTypeOK, NEW s \in Streams, NEW r \in [rec : Requests, whole : BOOLEAN],
         log' = [log EXCEPT ![s] = Append(@, r)]
  PROVE  /\ log' \in [Streams -> Seq([rec : Requests, whole : BOOLEAN])]
         /\ \A t \in Streams \ {s} : log'[t] = log[t]
         /\ DOMAIN log'[s] = DOMAIN log[s] \cup {Len(log[s]) + 1}
         /\ \A i \in DOMAIN log[s] : log'[s][i] = log[s][i] /\ i < Len(log[s]) + 1
         /\ log'[s][Len(log[s]) + 1] = r
<1>. DEFINE R == [rec : Requests, whole : BOOLEAN]
<1>1. log[s] \in Seq(R) /\ log \in [Streams -> Seq(R)]  BY DEF StoreTypeOK
<1>2. log'[s] = Append(log[s], r) /\ \A t \in Streams \ {s} : log'[t] = log[t]  BY <1>1
<1>. HIDE DEF R
<1>3. r \in R  BY DEF R
<1>4. Append(log[s], r) \in Seq(R)  BY <1>1, <1>3
<1>5. log' \in [Streams -> Seq(R)]  BY <1>1, <1>4
<1>6. /\ DOMAIN log[s] = 1..Len(log[s]) /\ Len(log[s]) \in Nat
      /\ DOMAIN log'[s] = 1..(Len(log[s]) + 1)
      /\ \A i \in 1..Len(log[s]) : log'[s][i] = log[s][i]
      /\ log'[s][Len(log[s]) + 1] = r
  BY <1>1, <1>2, <1>3
<1>7. /\ DOMAIN log'[s] = DOMAIN log[s] \cup {Len(log[s]) + 1}
      /\ \A i \in DOMAIN log[s] : log'[s][i] = log[s][i] /\ i < Len(log[s]) + 1
  BY <1>6
<1>. QED  BY <1>2, <1>5, <1>6, <1>7 DEF R

\* The known requests are numbers in bounds.
LEMMA KnownFits ==
  ASSUME StoreTypeOK
  PROVE  /\ Known \subseteq Requests /\ Requests \subseteq Nat
         /\ \A n \in Known : Kind(n) \in Kinds /\ By(n) \in Instances /\ File(n) \in Files \cup Streams
<1>1. Len(requests) \in Nat /\ MaxRequests \in Nat /\ Len(requests) <= MaxRequests
  BY StoreAssumption DEF StoreTypeOK, StoreAssumption
<1>2. Known = 1..Len(requests)  BY DEF StoreTypeOK, Known
<1>3. \A n \in Known : requests[n] \in [kind : Kinds, by : Instances, file : Files \cup Streams]
  <2>. DEFINE R == [kind : Kinds, by : Instances, file : Files \cup Streams]
  <2>1. requests \in Seq(R)  BY DEF StoreTypeOK
  <2>. HIDE DEF R
  <2>2. \A n \in Known : requests[n] \in R  BY <1>2, <2>1
  <2>. QED  BY <2>2 DEF R
<1>4. \A n \in Known : Kind(n) \in Kinds /\ By(n) \in Instances /\ File(n) \in Files \cup Streams
  BY <1>3 DEF Kind, By, File
<1>5. Known \subseteq Requests /\ Requests \subseteq Nat  BY <1>1, <1>2 DEF Requests
<1>. QED  BY <1>4, <1>5

\* What is queued is a request.
LEMMA QueuedFits ==
  ASSUME StoreTypeOK, NEW p \in Instances
  PROVE  /\ chain[p] \subseteq Requests /\ First(chain[p]) \subseteq chain[p]
         /\ \A s \in Streams : appends[p][s] \subseteq Requests /\ NextAppend(p, s) \subseteq appends[p][s]
BY DEF StoreTypeOK, First, NextAppend

-----------------------------------------------------------------------------
(* Types.                                                                  *)

LEMMA TypeStep ==
  ASSUME StoreTypeOK, [StoreNext]_storeVars
  PROVE  StoreTypeOK'
<1>0. "run" \in Files /\ Cases \subseteq Files  BY DEF Files
<1>. USE DEF diskVars, memoryVars, historyVars
<1>1. ASSUME NEW p \in Instances, StartRun(p) \/ MakeCaseDirectory(p) \/ FailStart(p)
      PROVE  StoreTypeOK'
  BY <1>0, <1>1 DEF StartRun, MakeCaseDirectory, FailStart, StoreTypeOK
<1>2. ASSUME NEW p \in Instances, WriteManifest(p)  PROVE StoreTypeOK'
  <2>1. Ask("start", p, "run")  BY <1>2 DEF WriteManifest
  <2>2. /\ New \in Requests /\ Len(requests') <= MaxRequests
        /\ requests' \in Seq([kind : Kinds, by : Instances, file : Files \cup Streams])
    BY <1>0, <2>1, AskFits DEF Kinds
  <2>3. chain' \in [Instances -> SUBSET Requests] /\ starting' \in [Instances -> {"idle", "made", "queued"}]
    BY <1>2, <2>2 DEF WriteManifest, QueueManifestWrite, StoreTypeOK
  <2>. QED  BY <1>2, <2>2, <2>3 DEF WriteManifest, StoreTypeOK
<1>3. ASSUME NEW p \in Instances, FinalizeRun(p)  PROVE StoreTypeOK'
  <2>1. Ask("finalize", p, "run")  BY <1>3 DEF FinalizeRun
  <2>2. /\ New \in Requests /\ Len(requests') <= MaxRequests
        /\ requests' \in Seq([kind : Kinds, by : Instances, file : Files \cup Streams])
    BY <1>0, <2>1, AskFits DEF Kinds
  <2>3. chain' \in [Instances -> SUBSET Requests]
    BY <1>3, <2>2 DEF FinalizeRun, QueueManifestWrite, StoreTypeOK
  <2>. QED  BY <1>3, <2>2, <2>3 DEF FinalizeRun, StoreTypeOK
<1>4. ASSUME NEW p \in Instances, NEW c \in Cases, WriteCaseResult(p, c)  PROVE StoreTypeOK'
  <2>1. Ask("result", p, c)  BY <1>4 DEF WriteCaseResult
  <2>2. /\ New \in Requests /\ Len(requests') <= MaxRequests
        /\ requests' \in Seq([kind : Kinds, by : Instances, file : Files \cup Streams])
    BY <1>0, <2>1, AskFits DEF Kinds
  <2>3. writing' \in [Requests -> {"none"} \cup Phases]
    BY <1>4, <2>2 DEF WriteCaseResult, StoreTypeOK, Phases
  <2>. QED  BY <1>4, <2>2, <2>3 DEF WriteCaseResult, StoreTypeOK
<1>5. ASSUME NEW p \in Instances, NEW s \in Streams, AppendRecord(p, s)  PROVE StoreTypeOK'
  <2>1. Ask("append", p, s)  BY <1>5 DEF AppendRecord
  <2>2. /\ New \in Requests /\ Len(requests') <= MaxRequests
        /\ requests' \in Seq([kind : Kinds, by : Instances, file : Files \cup Streams])
    BY <2>1, AskFits DEF Kinds
  <2>3. appends' \in [Instances -> [Streams -> SUBSET Requests]]
    BY <1>5, <2>2 DEF AppendRecord, StoreTypeOK
  <2>. QED  BY <1>5, <2>2, <2>3 DEF AppendRecord, StoreTypeOK
<1>6. ASSUME NEW p \in Instances, NEW s \in Streams, RunAppend(p, s)  PROVE StoreTypeOK'
  <2>1. PICK n \in NextAppend(p, s) :
          /\ appends' = [appends EXCEPT ![p][s] = @ \ {n}]
          /\ \/ Tell(n, "ok") /\ log' = [log EXCEPT ![s] = Append(@, [rec |-> n, whole |-> TRUE])]
             \/ Tell(n, "failed") /\ log' = [log EXCEPT ![s] = Append(@, [rec |-> n, whole |-> FALSE])]
             \/ Tell(n, "failed") /\ UNCHANGED log
          /\ UNCHANGED <<dirs, content, temps, active, starting, chain, writing, requests, crashes>>
    BY <1>6 DEF RunAppend
  <2>2. n \in Requests  BY <2>1, QueuedFits
  <2>3. log' \in [Streams -> Seq([rec : Requests, whole : BOOLEAN])]
    <3>1. \A w \in BOOLEAN : [rec |-> n, whole |-> w] \in [rec : Requests, whole : BOOLEAN]
      BY <2>2
    <3>2. CASE UNCHANGED log  BY <3>2 DEF StoreTypeOK
    <3>3. CASE \E w \in BOOLEAN : log' = [log EXCEPT ![s] = Append(@, [rec |-> n, whole |-> w])]
      BY <3>1, <3>3, LogFits
    <3>. QED  BY <2>1, <3>2, <3>3
  <2>4. told' \in [Requests -> {"nothing", "ok", "failed"}]  BY <2>1, <2>2 DEF Tell, StoreTypeOK
  <2>5. appends' \in [Instances -> [Streams -> SUBSET Requests]]  BY <2>1 DEF StoreTypeOK
  <2>. QED  BY <2>1, <2>3, <2>4, <2>5 DEF StoreTypeOK
<1>7. ASSUME NEW p \in Instances, BeginManifest(p)  PROVE StoreTypeOK'
  BY <1>7, QueuedFits DEF BeginManifest, StoreTypeOK, Phases
<1>8. ASSUME NEW n \in Known, AtomicReplaceFile(n)  PROVE StoreTypeOK'
  <2>1. n \in Requests /\ By(n) \in Instances /\ File(n) \in Files \cup Streams  BY KnownFits
  <2>6. \E to \in {"none"} \cup Phases : writing' = [writing EXCEPT ![n] = to]
    BY <1>8 DEF AtomicReplaceFile, OpenTemporary, SyncTemporary, Rename, EndReplacement,
                FailReplacement, Phase, Phases
  <2>2. writing' \in [Requests -> {"none"} \cup Phases] /\ temps' \subseteq Requests
    BY <1>8, <2>1, <2>6 DEF AtomicReplaceFile, OpenTemporary, SyncTemporary, Rename, EndReplacement,
                      FailReplacement, StoreTypeOK
  <2>3. content' \in [Files -> {-1, 0} \cup Requests]
    BY <1>8, <2>1 DEF AtomicReplaceFile, OpenTemporary, SyncTemporary, Rename, EndReplacement,
                      FailReplacement, StoreTypeOK
  <2>4. CASE UNCHANGED <<chain, starting, active, told>>
    BY <1>8, <2>2, <2>3, <2>4 DEF AtomicReplaceFile, OpenTemporary, SyncTemporary, Rename,
                      EndReplacement, FailReplacement, StoreTypeOK
  <2>5. CASE \E answer \in {"ok", "failed"} : SettleWrite(n, answer)
    <3>1. chain' \in [Instances -> SUBSET Requests] /\ told' \in [Requests -> {"nothing", "ok", "failed"}]
      BY <2>1, <2>5 DEF SettleWrite, Tell, StoreTypeOK
    <3>2. starting' \in [Instances -> {"idle", "made", "queued"}] /\ active' \subseteq Instances
      BY <2>1, <2>5 DEF SettleWrite, StoreTypeOK
    <3>. QED
      BY <1>8, <2>2, <2>3, <3>1, <3>2 DEF AtomicReplaceFile, OpenTemporary, SyncTemporary, Rename,
                      EndReplacement, FailReplacement, StoreTypeOK
  <2>. QED  BY <1>8, <2>4, <2>5 DEF AtomicReplaceFile, OpenTemporary, SyncTemporary, Rename,
                      EndReplacement, FailReplacement
<1>9. ASSUME NEW p \in Instances, Crash(p)  PROVE StoreTypeOK'
  <2>1. log' \in [Streams -> Seq([rec : Requests, whole : BOOLEAN])]
    <3>1. CASE UNCHANGED log  BY <3>1 DEF StoreTypeOK
    <3>2. ASSUME NEW s \in Streams, NEW whole \in BOOLEAN, NEW n \in NextAppend(p, s),
                 log' = [log EXCEPT ![s] = Append(@, [rec |-> n, whole |-> whole])]
          PROVE  log' \in [Streams -> Seq([rec : Requests, whole : BOOLEAN])]
      <4>1. [rec |-> n, whole |-> whole] \in [rec : Requests, whole : BOOLEAN]  BY QueuedFits
      <4>. QED  BY <3>2, <4>1, LogFits
    <3>. QED  BY <1>9, <3>1, <3>2 DEF Crash
  <2>2. crashes' \in 0..MaxCrashes
    <3>1. crashes \in 0..MaxCrashes /\ crashes < MaxCrashes /\ crashes' = crashes + 1 /\ MaxCrashes \in Nat
      BY <1>9, StoreAssumption DEF Crash, StoreTypeOK, StoreAssumption
    <3>. QED  BY <3>1
  <2>3. /\ chain' \in [Instances -> SUBSET Requests]
        /\ appends' \in [Instances -> [Streams -> SUBSET Requests]]
        /\ starting' \in [Instances -> {"idle", "made", "queued"}] /\ active' \subseteq Instances
    BY <1>9 DEF Crash, StoreTypeOK
  <2>4. writing' \in [Requests -> {"none"} \cup Phases]  BY <1>9 DEF Crash, StoreTypeOK
  <2>. QED  BY <1>9, <2>1, <2>2, <2>3, <2>4 DEF Crash, StoreTypeOK
<1>10. CASE UNCHANGED storeVars
  BY <1>10 DEF storeVars, StoreTypeOK
<1>. QED
  BY <1>1, <1>2, <1>3, <1>4, <1>5, <1>6, <1>7, <1>8, <1>9, <1>10 DEF StoreNext, Known

\* The types hold in every state.
THEOREM StoreTypeCorrect == StoreSpec => []StoreTypeOK
<1>1. StoreInit => StoreTypeOK
  <2>. SUFFICES ASSUME StoreInit PROVE StoreTypeOK
    OBVIOUS
  <2>1. MaxRequests \in Nat /\ MaxCrashes \in Nat  BY StoreAssumption DEF StoreAssumption
  <2>2. requests = <<>> /\ crashes = 0  BY DEF StoreInit
  <2>3. /\ requests \in Seq([kind : Kinds, by : Instances, file : Files \cup Streams])
        /\ Len(requests) <= MaxRequests /\ crashes \in 0..MaxCrashes
    BY <2>1, <2>2
  <2>4. log \in [Streams -> Seq([rec : Requests, whole : BOOLEAN])]  BY DEF StoreInit
  <2>5. /\ content \in [Files -> {-1, 0} \cup Requests] /\ active \subseteq Instances
        /\ dirs \subseteq Files /\ temps \subseteq Requests
        /\ starting \in [Instances -> {"idle", "made", "queued"}]
    BY DEF StoreInit
  <2>6. /\ chain \in [Instances -> SUBSET Requests]
        /\ appends \in [Instances -> [Streams -> SUBSET Requests]]
    BY DEF StoreInit
  <2>7. /\ writing \in [Requests -> {"none"} \cup Phases]
        /\ told \in [Requests -> {"nothing", "ok", "failed"}]
    BY DEF StoreInit
  <2>. QED  BY <2>3, <2>4, <2>5, <2>6, <2>7 DEF StoreTypeOK
<1>2. StoreTypeOK /\ [StoreNext]_storeVars => StoreTypeOK'  BY TypeStep
<1>. QED  BY <1>1, <1>2, PTL DEF StoreSpec

-----------------------------------------------------------------------------
(* The kinds of steps.                                                     *)

\* A request is made: it is queued, or begun when it replaces the result of a case.
AskStep(kind, p, f, n) ==
  /\ n = New /\ Ask(kind, p, f)
  /\ UNCHANGED <<dirs, content, log, active, told, crashes>>
  /\ \/ kind \in Manifests /\ f = "run"
     \/ kind = "result" /\ f \in Cases
     \/ kind = "append" /\ f \in Streams
  /\ IF kind = "start" THEN starting[p] = "made" /\ starting' = [starting EXCEPT ![p] = "queued"]
                       ELSE starting' = starting
  /\ IF kind \in Manifests THEN chain' = [chain EXCEPT ![p] = @ \cup {n}] ELSE chain' = chain
  /\ IF kind = "result" THEN writing' = [writing EXCEPT ![n] = "begun"] ELSE writing' = writing
  /\ IF kind = "append" THEN p \in active /\ appends' = [appends EXCEPT ![p][f] = @ \cup {n}]
                        ELSE appends' = appends
  /\ kind = "finalize" => MayRewrite(p)

\* An append of an instance to a stream ends, well or with a part of its line.
AppendStep(p, s, n, answer, whole) ==
  /\ n \in NextAppend(p, s) /\ appends' = [appends EXCEPT ![p][s] = @ \ {n}] /\ Tell(n, answer)
  /\ \/ log' = [log EXCEPT ![s] = Append(@, [rec |-> n, whole |-> whole])]
     \/ answer = "failed" /\ log' = log
  /\ answer = "ok" => whole
  /\ UNCHANGED <<dirs, content, active, starting, chain, writing, requests, crashes>>

\* A replacement gets on; the last of these steps puts its version in place.
MoveStep(n, from, to) ==
  /\ writing[n] = from /\ writing' = [writing EXCEPT ![n] = to]
  /\ \/ from = "none" /\ to = "begun" /\ (\E p \in Instances : n \in First(chain[p])) /\ content' = content
     \/ from \in {"begun", "opened"} /\ to \in {"opened", "synced"} /\ content' = content
     \/ from = "synced" /\ to = "renaming" /\ content' = [content EXCEPT ![File(n)] = n]
  /\ UNCHANGED <<dirs, log, active, starting, chain, appends, requests, told, crashes>>

\* A replacement is over.
SettleStep(n, answer) ==
  /\ writing[n] \in IF answer = "ok" THEN {"renaming"} ELSE {"begun", "opened", "synced"}
  /\ writing' = [writing EXCEPT ![n] = "none"] /\ SettleWrite(n, answer)
  /\ UNCHANGED <<dirs, content, log, appends, requests, crashes>>

\* The directories of a run are made, or cannot be.
DirectoryStep(p) ==
  /\ dirs \subseteq dirs'
  /\ \/ "run" \notin dirs /\ "run" \in dirs' /\ starting[p] = "idle" /\ starting' = [starting EXCEPT ![p] = "made"]
     \/ starting[p] = "made" /\ starting' = starting
     \/ starting[p] = "made" /\ starting' = [starting EXCEPT ![p] = "idle"]
  /\ UNCHANGED <<content, log, active, chain, appends, writing, requests, told, crashes>>

LEMMA StepsAre ==
  ASSUME StoreTypeOK, [StoreNext]_storeVars
  PROVE  \/ \E kind \in Kinds, p \in Instances, f \in Files \cup Streams, n \in Requests :
              AskStep(kind, p, f, n)
         \/ \E p \in Instances, s \in Streams, n \in Requests, answer \in {"ok", "failed"},
               whole \in BOOLEAN : AppendStep(p, s, n, answer, whole)
         \/ \E n \in Requests, from, to \in {"none"} \cup Phases : MoveStep(n, from, to)
         \/ \E n \in Known, answer \in {"ok", "failed"} : SettleStep(n, answer)
         \/ \E p \in Instances : DirectoryStep(p)
         \/ \E p \in Instances : Crash(p)
         \/ UNCHANGED storeVars
<1>. USE DEF diskVars, memoryVars, historyVars
<1>0. "run" \in Files /\ Cases \subseteq Files  BY DEF Files
<1>1. ASSUME NEW p \in Instances, StartRun(p) \/ MakeCaseDirectory(p) \/ FailStart(p)
      PROVE  DirectoryStep(p)
  BY <1>1 DEF StartRun, MakeCaseDirectory, FailStart, DirectoryStep
<1>2. ASSUME NEW p \in Instances, WriteManifest(p)  PROVE \E n \in Requests : AskStep("start", p, "run", n)
  <2>1. Ask("start", p, "run")  BY <1>2 DEF WriteManifest
  <2>2. New \in Requests  BY <1>0, <2>1, AskFits DEF Kinds
  <2>3. AskStep("start", p, "run", New)  BY <1>2 DEF WriteManifest, QueueManifestWrite, AskStep, Manifests
  <2>. QED  BY <2>2, <2>3
<1>3. ASSUME NEW p \in Instances, FinalizeRun(p)  PROVE \E n \in Requests : AskStep("finalize", p, "run", n)
  <2>1. Ask("finalize", p, "run")  BY <1>3 DEF FinalizeRun
  <2>2. New \in Requests  BY <1>0, <2>1, AskFits DEF Kinds
  <2>3. AskStep("finalize", p, "run", New)  BY <1>3 DEF FinalizeRun, QueueManifestWrite, AskStep, Manifests
  <2>. QED  BY <2>2, <2>3
<1>4. ASSUME NEW p \in Instances, NEW c \in Cases, WriteCaseResult(p, c)  PROVE \E n \in Requests : AskStep("result", p, c, n)
  <2>1. Ask("result", p, c)  BY <1>4 DEF WriteCaseResult
  <2>2. New \in Requests  BY <1>0, <2>1, AskFits DEF Kinds
  <2>3. AskStep("result", p, c, New)  BY <1>4 DEF WriteCaseResult, AskStep, Manifests
  <2>. QED  BY <2>2, <2>3
<1>5. ASSUME NEW p \in Instances, NEW s \in Streams, AppendRecord(p, s)  PROVE \E n \in Requests : AskStep("append", p, s, n)
  <2>1. Ask("append", p, s)  BY <1>5 DEF AppendRecord
  <2>2. New \in Requests  BY <1>0, <2>1, AskFits DEF Kinds
  <2>3. AskStep("append", p, s, New)  BY <1>5 DEF AppendRecord, AskStep, Manifests
  <2>. QED  BY <2>2, <2>3
<1>6. ASSUME NEW p \in Instances, NEW s \in Streams, RunAppend(p, s)
      PROVE  \E n \in Requests, answer \in {"ok", "failed"}, whole \in BOOLEAN :
               AppendStep(p, s, n, answer, whole)
  <2>1. PICK n \in NextAppend(p, s) :
          /\ appends' = [appends EXCEPT ![p][s] = @ \ {n}]
          /\ \/ Tell(n, "ok") /\ log' = [log EXCEPT ![s] = Append(@, [rec |-> n, whole |-> TRUE])]
             \/ Tell(n, "failed") /\ log' = [log EXCEPT ![s] = Append(@, [rec |-> n, whole |-> FALSE])]
             \/ Tell(n, "failed") /\ UNCHANGED log
          /\ UNCHANGED <<dirs, content, temps, active, starting, chain, writing, requests, crashes>>
    BY <1>6 DEF RunAppend
  <2>2. n \in Requests  BY <2>1, QueuedFits
  <2>3. \/ AppendStep(p, s, n, "ok", TRUE) \/ AppendStep(p, s, n, "failed", FALSE)
    BY <2>1 DEF AppendStep
  <2>. QED  BY <2>2, <2>3
<1>7. ASSUME NEW p \in Instances, BeginManifest(p)
      PROVE  \E n \in Requests : MoveStep(n, "none", "begun")
  <2>1. PICK n \in First(chain[p]) : writing[n] = "none" /\ writing' = [writing EXCEPT ![n] = "begun"]
    BY <1>7 DEF BeginManifest
  <2>2. n \in Requests  BY <2>1, QueuedFits
  <2>3. MoveStep(n, "none", "begun")  BY <1>7, <2>1 DEF BeginManifest, MoveStep
  <2>. QED  BY <2>2, <2>3
<1>8. ASSUME NEW n \in Known, AtomicReplaceFile(n)
      PROVE  \/ \E from, to \in {"none"} \cup Phases : MoveStep(n, from, to)
             \/ \E answer \in {"ok", "failed"} : SettleStep(n, answer)
  <2>1. OpenTemporary(n) => MoveStep(n, "begun", "opened")
    BY DEF OpenTemporary, Phase, MoveStep
  <2>2. SyncTemporary(n) => MoveStep(n, "opened", "synced")
    BY DEF SyncTemporary, Phase, MoveStep
  <2>3. Rename(n) => MoveStep(n, "synced", "renaming")
    BY DEF Rename, Phase, MoveStep
  <2>4. EndReplacement(n) => SettleStep(n, "ok")
    BY DEF EndReplacement, Phase, SettleStep
  <2>5. FailReplacement(n) => SettleStep(n, "failed")
    BY DEF FailReplacement, Phase, SettleStep
  <2>6. Phases = {"begun", "opened", "synced", "renaming"}  BY DEF Phases
  <2>. QED  BY <1>8, <2>1, <2>2, <2>3, <2>4, <2>5, <2>6 DEF AtomicReplaceFile
<1>9. {"start", "result", "finalize", "append"} \subseteq Kinds  BY DEF Kinds
<1>10. Known \subseteq Requests /\ {"none", "begun"} \subseteq {"none"} \cup Phases
  BY KnownFits DEF Phases
<1>11. CASE StoreNext
  <2>1. CASE \E n \in Known : AtomicReplaceFile(n)  BY <1>8, <1>10, <2>1
  <2>2. ASSUME NEW p \in Instances,
               \/ StartRun(p) \/ MakeCaseDirectory(p) \/ FailStart(p) \/ WriteManifest(p)
               \/ FinalizeRun(p) \/ BeginManifest(p) \/ Crash(p)
               \/ \E c \in Cases : WriteCaseResult(p, c)
               \/ \E s \in Streams : AppendRecord(p, s) \/ RunAppend(p, s)
        PROVE  \/ \E kind \in Kinds, f \in Files \cup Streams, n \in Requests : AskStep(kind, p, f, n)
               \/ \E s \in Streams, n \in Requests, answer \in {"ok", "failed"},
                     whole \in BOOLEAN : AppendStep(p, s, n, answer, whole)
               \/ \E n \in Requests : MoveStep(n, "none", "begun")
               \/ DirectoryStep(p) \/ Crash(p)
    BY <1>0, <1>1, <1>2, <1>3, <1>4, <1>5, <1>6, <1>7, <1>9, <2>2
  <2>. QED  BY <1>10, <1>11, <2>1, <2>2 DEF StoreNext, Known
<1>. QED  BY <1>11

-----------------------------------------------------------------------------
(* A request.                                                              *)

LEMMA AskedFits ==
  ASSUME StoreTypeOK, NEW kind \in Kinds, NEW p \in Instances, NEW f \in Files \cup Streams,
         NEW n \in Requests, AskStep(kind, p, f, n)
  PROVE  /\ n \notin Known /\ Known' = Known \cup {n}
         /\ \A m \in Known : /\ Kind(m)' = Kind(m) /\ By(m)' = By(m) /\ File(m)' = File(m)
                             /\ m < n /\ m \in Requests
         /\ Kind(n)' = kind /\ By(n)' = p /\ File(n)' = f
<1>1. n = New /\ Ask(kind, p, f)  BY DEF AskStep
<1>2. /\ n \notin Known /\ Known' = Known \cup {n}
      /\ \A m \in Known : requests'[m] = requests[m] /\ m < n /\ m \in Requests
      /\ requests'[n] = [kind |-> kind, by |-> p, file |-> f]
  BY <1>1, AskFits
<1>. QED  BY <1>2 DEF Kind, By, File

\* An instance that finalizes the run has it active, or another has finalized it.
LEMMA FinalizesLate ==
  ASSUME StoreInv, NEW p \in Instances, MayRewrite(p)
  PROVE  "run" \in dirs /\ \A q \in Instances : starting[q] = "idle"
<1>1. CASE p \in active
  BY <1>1 DEF StoreInv, StartsFirst
<1>2. CASE IsResult(content["run"])
  <2>1. content["run"] # 0 /\ requests[content["run"]].kind = "finalize"
    BY <1>2 DEF IsResult, StoreInv, StoreTypeOK, Files
  <2>2. content["run"] \in Known  BY <2>1 DEF StoreInv, FilesWhole, Whole, Files
  <2>. QED  BY <2>1, <2>2 DEF StoreInv, StartsFirst, Kind
<1>. QED  BY <1>1, <1>2 DEF MayRewrite

LEMMA AskKeeps ==
  ASSUME StoreInv, StoreTypeOK', NEW kind \in Kinds, NEW p \in Instances,
         NEW f \in Files \cup Streams, NEW n \in Requests, AskStep(kind, p, f, n)
  PROVE  StoreInv'
<1>0. StoreTypeOK  BY DEF StoreInv
<1>1. /\ n \notin Known /\ Known' = Known \cup {n} /\ n \in Nat
      /\ \A m \in Known : /\ Kind(m)' = Kind(m) /\ By(m)' = By(m) /\ File(m)' = File(m)
                          /\ m < n /\ m \in Requests
      /\ Kind(n)' = kind /\ By(n)' = p /\ File(n)' = f
  BY <1>0, AskedFits, KnownFits
<1>2. UNCHANGED <<dirs, content, log, active, told, crashes>>  BY DEF AskStep
<1>3. RequestsFit'
  <2>1. /\ kind \in Manifests => f = "run"
        /\ kind = "result" => f \in Cases
        /\ kind = "append" => f \in Streams
    BY DEF AskStep, Manifests
  <2>. QED  BY <1>1, <1>2, <2>1 DEF StoreInv, RequestsFit
<1>4. told[n] = "nothing"  BY <1>1 DEF StoreInv, RequestsFit
<1>5. \A q \in Instances : /\ chain[q] \subseteq chain'[q]
                           /\ \A m \in chain'[q] : m \in chain[q] \/ (m = n /\ q = p /\ kind \in Manifests)
  BY <1>0 DEF AskStep, StoreTypeOK
<1>6. ChainsFit'
  BY <1>1, <1>2, <1>4, <1>5 DEF StoreInv, ChainsFit
<1>7. \A q \in Instances, s \in Streams : \A m \in appends'[q][s] :
        m \in appends[q][s] \/ (m = n /\ q = p /\ s = f /\ kind = "append")
  BY <1>0 DEF AskStep, StoreTypeOK
<1>8. AppendsFit'
  BY <1>1, <1>2, <1>4, <1>7 DEF StoreInv, AppendsFit
<1>9. \A m \in Requests : writing'[m] = writing[m] \/ (m = n /\ kind = "result")
  BY <1>0 DEF AskStep, StoreTypeOK
<1>10. writing[n] = "none"  BY <1>1 DEF StoreInv, WritesFit
<1>11. WritesFit'
  <2>. SUFFICES ASSUME NEW m \in Requests, writing'[m] # "none"
                PROVE  /\ m \in Known' /\ Kind(m)' # "append" /\ told'[m] = "nothing"
                       /\ Kind(m)' \in Manifests => m \in First(chain[By(m)])'
    BY DEF WritesFit
  <2>1. CASE m = n
    <3>1. kind = "result"  BY <1>9, <1>10, <2>1
    <3>. QED  BY <1>1, <1>2, <1>4, <2>1, <3>1 DEF Manifests
  <2>2. CASE m # n
    <3>1. /\ m \in Known /\ Kind(m) # "append" /\ told[m] = "nothing"
          /\ Kind(m) \in Manifests => m \in First(chain[By(m)])
      BY <1>9, <2>2 DEF StoreInv, WritesFit
    <3>2. By(m) \in Instances  BY <1>0, <3>1, KnownFits
    <3>3. \A k \in chain'[By(m)] : k \in chain[By(m)] \/ k = n  BY <1>5, <3>2
    <3>4. m \in First(chain[By(m)]) => m \in First(chain'[By(m)])
      BY <1>1, <1>5, <3>1, <3>2, <3>3 DEF First, Requests
    <3>5. First(chain[By(m)])' = First(chain'[By(m)])  BY <1>1, <3>1 DEF First
    <3>. QED  BY <1>1, <1>2, <3>1, <3>4, <3>5
  <2>. QED  BY <2>1, <2>2
<1>12. ChainsInOrder'
  <2>. SUFFICES ASSUME NEW m \in Known', Kind(m)' \in Manifests, told'[m] # "nothing",
                       NEW k \in chain'[By(m)']
                PROVE  m < k
    BY DEF ChainsInOrder
  <2>1. m \in Known /\ Kind(m) \in Manifests /\ told[m] # "nothing" /\ By(m)' = By(m) /\ m < n
    BY <1>1, <1>2, <1>4
  <2>2. By(m) \in Instances  BY <1>0, <2>1, KnownFits
  <2>3. k \in chain[By(m)] \/ k = n  BY <1>5, <2>1, <2>2
  <2>. QED  BY <2>1, <2>3 DEF StoreInv, ChainsInOrder
<1>13. \A q \in Instances : Runs(q)' => Runs(q)
  <2>1. \A q \in Instances : starting'[q] = starting[q] \/ (q = p /\ starting[p] = "made")
    BY <1>0 DEF AskStep, StoreTypeOK
  <2>2. kind = "append" => p \in active  BY DEF AskStep
  <2>. QED  BY <1>2, <1>7, <2>1, <2>2 DEF Runs
<1>14. OneRunner'  BY <1>2, <1>13 DEF StoreInv, OneRunner
<1>15. StartsFirst'
  <2>1. ASSUME NEW m \in Known', Kind(m)' = "start", m \in chain'[By(m)']
        PROVE  /\ starting'[By(m)'] = "queued"
               /\ \A k \in chain'[By(m)'] : Kind(k)' = "start" => k = m
    <3>1. By(m)' \in Instances
      BY <1>0, <1>1, KnownFits
    <3>2. \A k \in chain[By(m)'] : k \in Known /\ By(k) = By(m)' /\ Kind(k)' = Kind(k)
      BY <1>1, <3>1 DEF StoreInv, ChainsFit
    <3>3. CASE m = n
      <4>1. kind = "start" /\ By(m)' = p  BY <1>1, <2>1, <3>3
      <4>2. starting[p] = "made" /\ starting'[p] = "queued"
        BY <1>0, <4>1 DEF AskStep, StoreTypeOK
      <4>3. \A k \in chain[p] : Kind(k) # "start"
        BY <3>2, <4>1, <4>2 DEF StoreInv, StartsFirst
      <4>. QED  BY <1>5, <3>2, <3>3, <4>1, <4>2, <4>3
    <3>4. CASE m # n
      <4>1. m \in Known /\ Kind(m) = "start" /\ By(m)' = By(m) /\ m \in chain[By(m)]
        BY <1>1, <1>5, <2>1, <3>1, <3>4
      <4>2. starting[By(m)] = "queued" /\ \A k \in chain[By(m)] : Kind(k) = "start" => k = m
        BY <4>1 DEF StoreInv, StartsFirst
      <4>3. starting'[By(m)] = starting[By(m)]
        BY <1>0, <3>1, <4>1, <4>2 DEF AskStep, StoreTypeOK
      <4>4. ~(kind = "start" /\ By(m) = p)
        BY <4>2 DEF AskStep
      <4>5. \A k \in chain'[By(m)] : Kind(k)' = "start" => k \in chain[By(m)]
        BY <1>1, <1>5, <3>1, <4>1, <4>4
      <4>. QED  BY <3>2, <4>1, <4>2, <4>3, <4>5
    <3>. QED  BY <3>3, <3>4
  <2>2. ASSUME "run" \notin dirs' \/ (\E q \in Instances : starting'[q] # "idle")
        PROVE  active' = {} /\ \A m \in Known' : Kind(m)' # "finalize"
    <3>1. "run" \notin dirs \/ (\E q \in Instances : starting[q] # "idle")
      BY <1>0, <1>2, <2>2 DEF AskStep, StoreTypeOK
    <3>2. kind # "finalize"  BY <3>1, FinalizesLate DEF AskStep
    <3>. QED  BY <1>1, <1>2, <3>1, <3>2 DEF StoreInv, StartsFirst
  <2>. QED  BY <2>1, <2>2 DEF StartsFirst
<1>16. FilesWhole'
  <2>. SUFFICES ASSUME NEW m \in Known, NEW g \in Files, Whole(m, g)  PROVE Whole(m, g)'
    BY <1>2 DEF StoreInv, FilesWhole, Whole, File, Kind, By
  <2>1. m # n /\ m \in Requests /\ By(m) \in Instances  BY <1>0, <1>1, KnownFits
  <2>2. writing'[m] = writing[m] /\ (m \in chain'[By(m)] => m \in chain[By(m)])
    BY <1>5, <1>9, <2>1
  <2>. QED  BY <1>1, <1>2, <2>2 DEF Whole
<1>17. StreamsInOrder'
  BY <1>1, <1>2, <1>7 DEF StoreInv, StreamsInOrder
<1>18. StreamsWhole'
  <2>1. Answered("append", "failed") = {} \/ Answered("append", "failed")' # {}
    <3>1. \A m \in Known : requests'[m].kind = requests[m].kind  BY <1>1 DEF Kind
    <3>2. Known \subseteq Known'  BY <1>1
    <3>. QED  BY <1>2, <3>1, <3>2 DEF Answered, Known
  <2>. QED  BY <1>2, <2>1 DEF StoreInv, StreamsWhole
<1>19. AppendedIsThere'
  BY <1>1, <1>2, <1>4 DEF StoreInv, AppendedIsThere
<1>20. \A m \in Known' : Landed(m)' => m \in Known /\ Landed(m)
  BY <1>1, <1>2, <1>4, <1>9, <1>10, <1>0, ZenonT(40) DEF Landed, AskStep, StoreTypeOK
<1>21. WrittenIsThere'
  BY <1>1, <1>2, <1>20 DEF StoreInv, WrittenIsThere
<1>22. ResultStands'
  <2>1. content["run"] # 0 => /\ Kind(content["run"])' = Kind(content["run"])
                              /\ By(content["run"])' = By(content["run"])
    <3>1. content["run"] # 0 => content["run"] \in Known
      BY DEF StoreInv, FilesWhole, Whole, Files
    <3>. QED  BY <1>1, <1>2, <3>1 DEF Kind, By
  <2>. QED  BY <1>1, <1>2, <1>20, <2>1 DEF StoreInv, ResultStands
<1>. QED
  BY <1>3, <1>6, <1>8, <1>11, <1>12, <1>14, <1>15, <1>16, <1>17, <1>18, <1>19, <1>21, <1>22
     DEF StoreInv

-----------------------------------------------------------------------------
(* An append.                                                              *)

\* While one instance has appends queued, no other has.
LEMMA OneAppends ==
  ASSUME StoreInv, NEW p \in Instances, NEW s \in Streams, appends[p][s] # {}
  PROVE  \A q \in Instances \ {p} : \A t \in Streams : appends[q][t] = {}
BY DEF StoreInv, OneRunner, Runs

\* The next append of a stream is behind what the stream holds.
LEMMA AppendBehind ==
  ASSUME StoreInv, NEW p \in Instances, NEW s \in Streams, NEW n \in NextAppend(p, s)
  PROVE  /\ n \in appends[p][s] /\ n \in Known /\ Kind(n) = "append" /\ File(n) = s
         /\ told[n] = "nothing" /\ n \in Requests
         /\ \A i \in DOMAIN log[s] : log[s][i].rec < n
         /\ \A m \in appends[p][s] : n <= m
<1>1. n \in appends[p][s] /\ \A m \in appends[p][s] : n <= m  BY DEF NextAppend, First
<1>2. n \in Known /\ Kind(n) = "append" /\ File(n) = s /\ told[n] = "nothing"
  BY <1>1 DEF StoreInv, AppendsFit
<1>3. n \in Requests  BY <1>2, KnownFits DEF StoreInv
<1>4. \A i \in DOMAIN log[s] : log[s][i].rec < n  BY <1>1 DEF StoreInv, StreamsInOrder
<1>. QED  BY <1>1, <1>2, <1>3, <1>4

\* What a record of the next append keeps of the order of the streams.
LEMMA OrderKept ==
  ASSUME StoreInv, NEW p \in Instances, NEW s \in Streams, NEW n \in NextAppend(p, s),
         NEW whole \in BOOLEAN, requests' = requests,
         \/ log' = [log EXCEPT ![s] = Append(@, [rec |-> n, whole |-> whole])]
         \/ log' = log,
         \A q \in Instances, t \in Streams : appends'[q][t] \subseteq appends[q][t] \ {n}
  PROVE  StreamsInOrder'
<1>0. StoreTypeOK /\ Known \subseteq Requests /\ Requests \subseteq Nat  BY KnownFits DEF StoreInv
<1>1. /\ n \in Known /\ n \in Requests /\ \A i \in DOMAIN log[s] : log[s][i].rec < n
      /\ n \in appends[p][s] /\ \A m \in appends[p][s] : n <= m
  BY AppendBehind
<1>2. \A q \in Instances \ {p} : \A t \in Streams : appends[q][t] = {}  BY <1>1, OneAppends
<1>3. \A q \in Instances : \A m \in appends'[q][s] : n < m
  <2>. SUFFICES ASSUME NEW q \in Instances, NEW m \in appends'[q][s]  PROVE n < m
    OBVIOUS
  <2>1. m \in appends[q][s] /\ m # n  OBVIOUS
  <2>2. q = p  BY <1>2, <2>1
  <2>3. m \in Requests  BY <1>0, <2>1, QueuedFits
  <2>. QED  BY <1>0, <1>1, <2>1, <2>2, <2>3
<1>4. Known' = Known  BY DEF Known
<1>5. CASE log' = log  BY <1>4, <1>5 DEF StoreInv, StreamsInOrder
<1>6. CASE log' = [log EXCEPT ![s] = Append(@, [rec |-> n, whole |-> whole])]
  <2>1. [rec |-> n, whole |-> whole] \in [rec : Requests, whole : BOOLEAN]  BY <1>1
  <2>2. /\ \A t \in Streams \ {s} : log'[t] = log[t]
        /\ DOMAIN log'[s] = DOMAIN log[s] \cup {Len(log[s]) + 1}
        /\ \A i \in DOMAIN log[s] : log'[s][i] = log[s][i] /\ i < Len(log[s]) + 1
        /\ log'[s][Len(log[s]) + 1] = [rec |-> n, whole |-> whole]
    BY <1>0, <1>6, <2>1, LogFits
  <2>. DEFINE last == Len(log[s]) + 1
  <2>3. log'[s][last].rec = n  BY <2>2
  <2>4. \A i \in DOMAIN log[s] : ~(last < i) /\ log'[s][i] = log[s][i] /\ log[s][i].rec < n
    <3>1. Len(log[s]) \in Nat /\ DOMAIN log[s] = 1..Len(log[s])  BY <1>0 DEF StoreTypeOK
    <3>. QED  BY <1>1, <2>2, <3>1
  <2>5. DOMAIN log'[s] = DOMAIN log[s] \cup {last} /\ ~(last < last)
    <3>1. Len(log[s]) \in Nat  BY <1>0 DEF StoreTypeOK
    <3>. QED  BY <2>2, <3>1
  <2>. HIDE DEF last
  <2>6. /\ \A i \in DOMAIN log[s] :
             /\ log[s][i].rec \in Known
             /\ \A q \in Instances : \A m \in appends'[q][s] : log[s][i].rec < m
        /\ \A i, j \in DOMAIN log[s] : i < j => log[s][i].rec < log[s][j].rec
    BY DEF StoreInv, StreamsInOrder
  <2>7. /\ \A i \in DOMAIN log'[s] :
             /\ log'[s][i].rec \in Known
             /\ \A q \in Instances : \A m \in appends'[q][s] : log'[s][i].rec < m
        /\ \A i, j \in DOMAIN log'[s] : i < j => log'[s][i].rec < log'[s][j].rec
    BY <1>1, <1>3, <2>3, <2>4, <2>5, <2>6
  <2>8. \A t \in Streams \ {s} :
          /\ \A i \in DOMAIN log'[t] :
               /\ log'[t][i].rec \in Known
               /\ \A q \in Instances : \A m \in appends'[q][t] : log'[t][i].rec < m
          /\ \A i, j \in DOMAIN log'[t] : i < j => log'[t][i].rec < log'[t][j].rec
    BY <2>2 DEF StoreInv, StreamsInOrder
  <2>. QED  BY <1>4, <2>7, <2>8 DEF StreamsInOrder
<1>. QED  BY <1>5, <1>6

\* A record in a stream stays there.
LEMMA RecordsStay ==
  ASSUME StoreTypeOK, NEW s \in Streams, NEW r \in [rec : Requests, whole : BOOLEAN],
         log' = [log EXCEPT ![s] = Append(@, r)] \/ log' = log
  PROVE  \A t \in Streams : \A i \in DOMAIN log[t] : i \in DOMAIN log'[t] /\ log'[t][i] = log[t][i]
BY LogFits

LEMMA AppendKeeps ==
  ASSUME StoreInv, StoreTypeOK', NEW p \in Instances, NEW s \in Streams, NEW n \in Requests,
         NEW answer \in {"ok", "failed"}, NEW whole \in BOOLEAN, AppendStep(p, s, n, answer, whole)
  PROVE  StoreInv'
<1>0. StoreTypeOK  BY DEF StoreInv
<1>1. /\ n \in NextAppend(p, s) /\ requests' = requests
      /\ UNCHANGED <<dirs, content, active, starting, chain, writing, crashes>>
  BY DEF AppendStep
<1>2. n \in appends[p][s] /\ n \in Known /\ Kind(n) = "append" /\ File(n) = s /\ told[n] = "nothing"
  BY <1>1, AppendBehind
<1>3. /\ Known' = Known
      /\ \A m \in Known : Kind(m)' = Kind(m) /\ By(m)' = By(m) /\ File(m)' = File(m)
  BY <1>1 DEF Known, Kind, By, File
<1>4. told'[n] = answer /\ \A m \in Requests \ {n} : told'[m] = told[m]
  BY <1>0 DEF AppendStep, Tell, StoreTypeOK
<1>5. Known \subseteq Requests /\ Requests \subseteq Nat  BY <1>0, KnownFits
<1>6. \A q \in Instances, t \in Streams : appends'[q][t] \subseteq appends[q][t] \ {n}
  <2>1. \A q \in Instances, t \in Streams : n \in appends[q][t] => q = p /\ t = s
    <3>1. \A q \in Instances \ {p} : \A t \in Streams : appends[q][t] = {}  BY <1>2, OneAppends
    <3>. QED  BY <1>2, <3>1 DEF StoreInv, AppendsFit
  <2>. QED  BY <1>0, <2>1 DEF AppendStep, StoreTypeOK
<1>7. RequestsFit'
  <2>1. \A m \in Requests \ Known : told'[m] = "nothing"
    BY <1>2, <1>4 DEF StoreInv, RequestsFit
  <2>2. \A m \in Known : /\ Kind(m)' \in Manifests => File(m)' = "run"
                         /\ Kind(m)' = "result" => File(m)' \in Cases
                         /\ Kind(m)' = "append" => File(m)' \in Streams
    BY <1>3 DEF StoreInv, RequestsFit
  <2>. QED  BY <1>3, <2>1, <2>2 DEF RequestsFit
<1>8. ChainsFit'
  <2>1. \A q \in Instances : n \notin chain[q]  BY <1>2 DEF StoreInv, ChainsFit, Manifests
  <2>. QED  BY <1>1, <1>3, <1>4, <1>5, <2>1 DEF StoreInv, ChainsFit
<1>9. AppendsFit'
  <2>. SUFFICES ASSUME NEW q \in Instances, NEW t \in Streams, NEW m \in appends'[q][t]
                PROVE  m \in Known' /\ Kind(m)' = "append" /\ File(m)' = t /\ told'[m] = "nothing"
    BY DEF AppendsFit
  <2>1. m \in appends[q][t] /\ m # n  BY <1>6
  <2>2. m \in Known /\ Kind(m) = "append" /\ File(m) = t /\ told[m] = "nothing"
    BY <2>1 DEF StoreInv, AppendsFit
  <2>. QED  BY <1>3, <1>4, <1>5, <2>1, <2>2
<1>10. writing[n] = "none"  BY <1>2 DEF StoreInv, WritesFit
<1>11. WritesFit'
  BY <1>1, <1>3, <1>4, <1>10 DEF StoreInv, WritesFit, First
<1>12. ChainsInOrder'
  BY <1>1, <1>2, <1>3, <1>4, <1>5 DEF StoreInv, ChainsInOrder, Manifests
<1>13. OneRunner'
  BY <1>1, <1>6 DEF StoreInv, OneRunner, Runs
<1>14. StartsFirst'
  <2>1. \A q \in Instances : \A m \in chain[q] : m \in Known  BY DEF StoreInv, ChainsFit
  <2>2. \A m \in Known : By(m) \in Instances  BY <1>0, KnownFits
  <2>. QED  BY <1>1, <1>3, <2>1, <2>2 DEF StoreInv, StartsFirst
<1>15. FilesWhole'
  <2>. SUFFICES ASSUME NEW m \in Known, NEW g \in Files, Whole(m, g)  PROVE Whole(m, g)'
    BY <1>1, <1>3 DEF StoreInv, FilesWhole, Whole, File, Kind, By
  <2>. QED  BY <1>1, <1>2, <1>3, <1>4, <1>5 DEF Whole
<1>16. StreamsInOrder'  BY <1>1, <1>6, OrderKept DEF AppendStep
<1>17. [rec |-> n, whole |-> whole] \in [rec : Requests, whole : BOOLEAN]  OBVIOUS
<1>18. \A t \in Streams : \A i \in DOMAIN log[t] : i \in DOMAIN log'[t] /\ log'[t][i] = log[t][i]
  BY <1>0, <1>17, RecordsStay DEF AppendStep
<1>19. StreamsWhole'
  <2>1. CASE answer = "failed"
    <3>1. n \in Answered("append", "failed")'
      BY <1>2, <1>3, <1>4, <2>1 DEF Answered, Known, Kind
    <3>. QED  BY <3>1 DEF StreamsWhole
  <2>2. CASE answer = "ok"
    <3>1. Answered("append", "failed") \subseteq Answered("append", "failed")'
      BY <1>1, <1>2, <1>3, <1>4, <1>5 DEF Answered, Known, Kind
    <3>2. log' = [log EXCEPT ![s] = Append(@, [rec |-> n, whole |-> TRUE])]
      BY <2>2 DEF AppendStep
    <3>3. [rec |-> n, whole |-> TRUE] \in [rec : Requests, whole : BOOLEAN]  OBVIOUS
    <3>4. /\ \A t \in Streams \ {s} : log'[t] = log[t]
          /\ DOMAIN log'[s] = DOMAIN log[s] \cup {Len(log[s]) + 1}
          /\ \A i \in DOMAIN log[s] : log'[s][i] = log[s][i]
          /\ log'[s][Len(log[s]) + 1].whole
      BY <1>0, <3>2, <3>3, LogFits
    <3>. QED  BY <1>1, <3>1, <3>4 DEF StoreInv, StreamsWhole
  <2>. QED  BY <2>1, <2>2
<1>20. AppendedIsThere'
  <2>. SUFFICES ASSUME NEW m \in Known, Kind(m) = "append", told'[m] = "ok"
                PROVE  \E i \in DOMAIN log'[File(m)] : log'[File(m)][i] = [rec |-> m, whole |-> TRUE]
    BY <1>3 DEF AppendedIsThere
  <2>1. File(m) \in Streams  BY DEF StoreInv, RequestsFit
  <2>2. CASE m # n
    <3>1. PICK i \in DOMAIN log[File(m)] : log[File(m)][i] = [rec |-> m, whole |-> TRUE]
      BY <1>4, <1>5, <2>2 DEF StoreInv, AppendedIsThere
    <3>. QED  BY <1>18, <2>1, <3>1
  <2>3. CASE m = n
    <3>1. log' = [log EXCEPT ![s] = Append(@, [rec |-> n, whole |-> TRUE])]
      BY <1>4, <2>3 DEF AppendStep
    <3>2. [rec |-> n, whole |-> TRUE] \in [rec : Requests, whole : BOOLEAN]  OBVIOUS
    <3>3. /\ DOMAIN log'[s] = DOMAIN log[s] \cup {Len(log[s]) + 1}
          /\ log'[s][Len(log[s]) + 1] = [rec |-> n, whole |-> TRUE]
      BY <1>0, <3>1, <3>2, LogFits
    <3>. QED  BY <1>2, <2>3, <3>3
  <2>. QED  BY <2>2, <2>3
<1>21. \A m \in Known : Kind(m) # "append" => m # n /\ (Landed(m)' <=> Landed(m))
  BY <1>1, <1>2, <1>4, <1>5 DEF Landed
<1>22. WrittenIsThere'
  BY <1>1, <1>3, <1>21 DEF StoreInv, WrittenIsThere
<1>23. ResultStands'
  BY <1>1, <1>3, <1>21 DEF StoreInv, ResultStands, Kind, By
<1>. QED
  BY <1>7, <1>8, <1>9, <1>11, <1>12, <1>13, <1>14, <1>15, <1>16, <1>19, <1>20, <1>22, <1>23
     DEF StoreInv

-----------------------------------------------------------------------------
(* A replacement gets on.                                                  *)

\* What does not depend on the replacements under way and the files.
LEMMA FrameKept ==
  ASSUME StoreInv,
         UNCHANGED <<dirs, log, active, starting, chain, appends, requests, told, crashes>>
  PROVE  /\ RequestsFit' /\ ChainsFit' /\ AppendsFit' /\ ChainsInOrder' /\ OneRunner' /\ StartsFirst'
         /\ StreamsInOrder' /\ StreamsWhole' /\ AppendedIsThere'
<1>1. RequestsFit' /\ ChainsFit' /\ AppendsFit' /\ ChainsInOrder'
  BY DEF StoreInv, RequestsFit, ChainsFit, AppendsFit, ChainsInOrder, Known, Kind, By, File
<1>2. OneRunner' /\ StartsFirst'
  BY DEF StoreInv, OneRunner, Runs, StartsFirst, Known, Kind, By
<1>3. StreamsInOrder' /\ StreamsWhole' /\ AppendedIsThere'
  BY DEF StoreInv, StreamsInOrder, StreamsWhole, Answered, AppendedIsThere, Known, Kind, File
<1>. QED  BY <1>1, <1>2, <1>3

\* What is replaced is the result of a case or the manifest of the run.
LEMMA ReplacedIsFile ==
  ASSUME StoreInv, NEW n \in Known, Kind(n) # "append"
  PROVE  /\ Kind(n) \in {"start", "finalize", "result"} /\ File(n) \in Files
         /\ Kind(n) = "result" <=> File(n) # "run"
<1>1. Kind(n) \in Kinds  BY KnownFits DEF StoreInv
<1>2. "run" \notin Cases  BY StoreAssumption DEF StoreAssumption
<1>. QED  BY <1>1, <1>2 DEF StoreInv, RequestsFit, Kinds, Files, Manifests

LEMMA MoveKeeps ==
  ASSUME StoreInv, StoreTypeOK', NEW n \in Requests, NEW from, NEW to, MoveStep(n, from, to)
  PROVE  StoreInv'
<1>0. StoreTypeOK  BY DEF StoreInv
<1>1. /\ UNCHANGED <<dirs, log, active, starting, chain, appends, requests, told, crashes>>
      /\ writing[n] = from /\ writing'[n] = to /\ \A m \in Requests \ {n} : writing'[m] = writing[m]
  BY <1>0 DEF MoveStep, StoreTypeOK
<1>2. /\ Known' = Known
      /\ \A m \in Known : Kind(m)' = Kind(m) /\ By(m)' = By(m) /\ File(m)' = File(m)
  BY <1>1 DEF Known, Kind, By, File
<1>3. Known \subseteq Requests /\ Requests \subseteq Nat  BY <1>0, KnownFits
<1>4. /\ n \in Known /\ Kind(n) # "append" /\ told[n] = "nothing"
      /\ Kind(n) \in Manifests => n \in First(chain[By(n)])
      /\ from = "none" => n \in chain[By(n)]
  <2>1. CASE from = "none"
    <3>1. PICK p \in Instances : n \in First(chain[p])  BY <2>1 DEF MoveStep
    <3>2. n \in chain[p]  BY <3>1 DEF First
    <3>. QED  BY <3>1, <3>2 DEF StoreInv, ChainsFit, Manifests
  <2>2. CASE from # "none"  BY <1>1, <2>2 DEF StoreInv, WritesFit
  <2>. QED  BY <2>1, <2>2
<1>5. File(n) \in Files /\ Kind(n) \in {"start", "finalize", "result"} /\ (Kind(n) = "result" <=> File(n) # "run")
  BY <1>4, ReplacedIsFile
<1>6. WritesFit'
  BY <1>1, <1>2, <1>4 DEF StoreInv, WritesFit, First
<1>7. n > 0 /\ "run" \in Files
  <2>1. MaxRequests \in Nat  BY StoreAssumption DEF StoreAssumption
  <2>. QED  BY <2>1 DEF Requests, Files
<1>8. CASE content' = content /\ from # "renaming" /\ to # "renaming"
  <2>1. ASSUME NEW m \in Known, NEW g \in Files, Whole(m, g)  PROVE Whole(m, g)'
    <3>1. m # n  BY <1>1, <1>4, <1>8, <2>1 DEF Whole, MoveStep
    <3>. QED  BY <1>1, <1>2, <1>3, <2>1, <3>1 DEF Whole
  <2>2. FilesWhole'
    BY <1>1, <1>8, <2>1 DEF StoreInv, FilesWhole, Whole, Known, Kind, By, File
  <2>3. \A m \in Known : Landed(m)' <=> Landed(m)  BY <1>1, <1>3, <1>8 DEF Landed
  <2>4. WrittenIsThere'  BY <1>2, <1>8, <2>3 DEF StoreInv, WrittenIsThere
  <2>5. ResultStands'
    BY <1>1, <1>2, <1>8, <2>3 DEF StoreInv, ResultStands, Kind, By
  <2>. QED  BY <1>1, <1>6, <2>2, <2>4, <2>5, FrameKept DEF StoreInv
<1>9. CASE content' = [content EXCEPT ![File(n)] = n] /\ from = "synced" /\ to = "renaming"
  <2>1. /\ content'[File(n)] = n
        /\ \A g \in Files \ {File(n)} : content'[g] = content[g]
    BY <1>0, <1>5, <1>9 DEF StoreTypeOK
  <2>2. \A g \in Files : g = File(n) => Whole(n, g)'
    BY <1>1, <1>2, <1>4, <1>9 DEF Whole
  <2>3. ASSUME NEW m \in Known, NEW g \in Files, Whole(m, g)  PROVE Whole(m, g)'
    <3>1. m # n  BY <1>1, <1>9, <2>3 DEF Whole
    <3>. QED  BY <1>1, <1>2, <1>3, <2>3, <3>1 DEF Whole
  <2>4. FilesWhole'
    <3>. SUFFICES ASSUME NEW g \in Files, content'[g] # 0
                  PROVE  \E m \in Known : m = content'[g] /\ Whole(m, g)'
      BY DEF FilesWhole, Whole, Known, Kind, By, File
    <3>1. CASE g = File(n)  BY <1>4, <2>1, <2>2, <3>1
    <3>2. CASE g # File(n)
      <4>1. content'[g] = content[g]  BY <2>1, <3>2
      <4>2. Whole(content[g], g)  BY <4>1 DEF StoreInv, FilesWhole
      <4>3. content[g] \in Known  BY <4>2 DEF Whole
      <4>. QED  BY <2>3, <4>1, <4>2, <4>3
    <3>. QED  BY <3>1, <3>2
  <2>5. \A m \in Known \ {n} : Landed(m)' <=> Landed(m)  BY <1>1, <1>3 DEF Landed
  <2>6. WrittenIsThere'
    <3>. SUFFICES ASSUME NEW m \in Known, Kind(m) # "append", Landed(m)'
                  PROVE  content'[File(m)] # 0
      BY <1>2 DEF WrittenIsThere
    <3>1. File(m) \in Files  BY ReplacedIsFile
    <3>2. CASE File(m) = File(n)  BY <1>3, <1>7, <2>1, <3>2
    <3>3. CASE File(m) # File(n)
      <4>1. Landed(m)  BY <2>5, <3>3
      <4>. QED  BY <2>1, <3>1, <3>3, <4>1 DEF StoreInv, WrittenIsThere
    <3>. QED  BY <3>2, <3>3
  <2>7. ResultStands'
    <3>. SUFFICES ASSUME NEW m \in Known, Kind(m) = "finalize", Landed(m)'
                  PROVE  /\ content'["run"] # 0 /\ requests[content'["run"]].kind = "finalize"
                         /\ content'["run"] >= m \/ requests[content'["run"]].by # By(m)
      BY <1>1, <1>2 DEF ResultStands, Kind, By
    <3>1. CASE Kind(n) = "result"
      <4>1. content'["run"] = content["run"]  BY <1>5, <1>7, <2>1, <3>1
      <4>2. Landed(m)  BY <2>5, <3>1
      <4>. QED  BY <4>1, <4>2 DEF StoreInv, ResultStands, Kind, By
    <3>2. CASE Kind(n) = "start"
      <4>1. n \in chain[By(n)] /\ By(n) \in Instances
        BY <1>0, <1>4, <3>2, KnownFits DEF First, Manifests
      <4>2. starting[By(n)] = "queued"  BY <1>4, <3>2, <4>1 DEF StoreInv, StartsFirst
      <4>. QED  BY <4>1, <4>2 DEF StoreInv, StartsFirst
    <3>3. CASE Kind(n) = "finalize"
      <4>1. content'["run"] = n  BY <1>5, <2>1, <3>3
      <4>2. ASSUME By(m) = By(n), m # n  PROVE n >= m
        <5>1. n \in First(chain[By(n)])  BY <1>4, <3>3 DEF Manifests
        <5>2. Landed(m)  BY <2>5, <4>2
        <5>3. CASE told[m] = "ok"
          <6>1. m < n
            BY <4>2, <5>1, <5>3 DEF StoreInv, ChainsInOrder, First, Manifests
          <6>. QED  BY <1>3, <1>4, <6>1
        <5>4. CASE writing[m] = "renaming"
          <6>1. m \in First(chain[By(m)])
            BY <1>3, <5>4 DEF StoreInv, WritesFit, Manifests
          <6>. QED  BY <1>3, <1>4, <4>2, <5>1, <6>1 DEF First
        <5>. QED  BY <5>2, <5>3, <5>4 DEF Landed
      <4>. QED  BY <1>3, <1>4, <1>7, <3>3, <4>1, <4>2 DEF Kind, By
    <3>. QED  BY <1>5, <3>1, <3>2, <3>3
  <2>. QED  BY <1>1, <1>6, <2>4, <2>6, <2>7, FrameKept DEF StoreInv
<1>. QED  BY <1>8, <1>9 DEF MoveStep

-----------------------------------------------------------------------------
(* A replacement is over.                                                  *)

LEMMA SettleKeeps ==
  ASSUME StoreInv, StoreTypeOK', NEW n \in Known, NEW answer \in {"ok", "failed"},
         SettleStep(n, answer)
  PROVE  StoreInv'
<1>0. StoreTypeOK /\ Known \subseteq Requests /\ Requests \subseteq Nat /\ By(n) \in Instances
  BY KnownFits DEF StoreInv
<1>1. /\ UNCHANGED <<dirs, content, log, appends, requests, crashes>>
      /\ writing'[n] = "none" /\ \A m \in Requests \ {n} : writing'[m] = writing[m]
      /\ told'[n] = answer /\ \A m \in Requests \ {n} : told'[m] = told[m]
      /\ chain'[By(n)] = chain[By(n)] \ {n}
      /\ \A q \in Instances \ {By(n)} : chain'[q] = chain[q]
  BY <1>0 DEF SettleStep, SettleWrite, Tell, StoreTypeOK
<1>2. /\ Known' = Known
      /\ \A m \in Known : Kind(m)' = Kind(m) /\ By(m)' = By(m) /\ File(m)' = File(m)
  BY <1>1 DEF Known, Kind, By, File
<1>3. /\ Kind(n) # "append" /\ told[n] = "nothing" /\ writing[n] # "none"
      /\ Kind(n) \in Manifests => n \in First(chain[By(n)])
      /\ writing[n] = "renaming" <=> answer = "ok"
  <2>1. writing[n] # "none" /\ (writing[n] = "renaming" <=> answer = "ok")  BY DEF SettleStep
  <2>. QED  BY <1>0, <2>1 DEF StoreInv, WritesFit
<1>4. \A q \in Instances : chain'[q] \subseteq chain[q] \ {n} /\ chain[q] \ {n} \subseteq chain'[q]
  <2>1. \A q \in Instances \ {By(n)} : n \notin chain[q]  BY DEF StoreInv, ChainsFit
  <2>. QED  BY <1>1, <2>1
<1>5. /\ \A q \in Instances : starting'[q] = starting[q] \/ (Kind(n) = "start" /\ q = By(n) /\ starting'[q] = "idle")
      /\ Kind(n) = "start" => starting'[By(n)] = "idle"
      /\ active' \subseteq active \/ (Kind(n) = "start" /\ active' = active \cup {By(n)})
  BY <1>0 DEF SettleStep, SettleWrite, StoreTypeOK, Kind
<1>6. Kind(n) = "start" => n \in chain[By(n)] /\ starting[By(n)] = "queued" /\ Runs(By(n))
  <2>1. Kind(n) = "start" => n \in chain[By(n)]  BY <1>3 DEF First, Manifests
  <2>. QED  BY <2>1 DEF StoreInv, StartsFirst, Runs
<1>7. RequestsFit'
  <2>1. \A m \in Requests \ Known : told'[m] = "nothing"  BY <1>1 DEF StoreInv, RequestsFit
  <2>2. \A m \in Known : /\ Kind(m)' \in Manifests => File(m)' = "run"
                         /\ Kind(m)' = "result" => File(m)' \in Cases
                         /\ Kind(m)' = "append" => File(m)' \in Streams
    BY <1>2 DEF StoreInv, RequestsFit
  <2>. QED  BY <1>2, <2>1, <2>2 DEF RequestsFit
<1>8. ChainsFit'
  <2>. SUFFICES ASSUME NEW q \in Instances, NEW m \in chain'[q]
                PROVE  m \in Known' /\ By(m)' = q /\ Kind(m)' \in Manifests /\ told'[m] = "nothing"
    BY DEF ChainsFit
  <2>1. m \in chain[q] /\ m # n  BY <1>4
  <2>2. m \in Known /\ By(m) = q /\ Kind(m) \in Manifests /\ told[m] = "nothing"
    BY <2>1 DEF StoreInv, ChainsFit
  <2>. QED  BY <1>0, <1>1, <1>2, <2>1, <2>2
<1>9. AppendsFit'
  <2>. SUFFICES ASSUME NEW q \in Instances, NEW t \in Streams, NEW m \in appends[q][t]
                PROVE  m \in Known' /\ Kind(m)' = "append" /\ File(m)' = t /\ told'[m] = "nothing"
    BY <1>1 DEF AppendsFit
  <2>1. m \in Known /\ Kind(m) = "append" /\ File(m) = t /\ told[m] = "nothing"
    BY DEF StoreInv, AppendsFit
  <2>. QED  BY <1>0, <1>1, <1>2, <1>3, <2>1
<1>10. WritesFit'
  <2>. SUFFICES ASSUME NEW m \in Requests, writing'[m] # "none"
                PROVE  /\ m \in Known' /\ Kind(m)' # "append" /\ told'[m] = "nothing"
                       /\ Kind(m)' \in Manifests => m \in First(chain'[By(m)'])
    BY DEF WritesFit, First
  <2>1. m # n /\ writing[m] # "none"  BY <1>1
  <2>2. /\ m \in Known /\ Kind(m) # "append" /\ told[m] = "nothing"
        /\ Kind(m) \in Manifests => m \in First(chain[By(m)])
    BY <2>1 DEF StoreInv, WritesFit
  <2>3. By(m) \in Instances  BY <1>0, <2>2, KnownFits
  <2>4. m \in First(chain[By(m)]) => m \in First(chain'[By(m)])
    BY <1>4, <2>1, <2>3 DEF First
  <2>. QED  BY <1>1, <1>2, <2>1, <2>2, <2>4
<1>11. ChainsInOrder'
  <2>. SUFFICES ASSUME NEW m \in Known, Kind(m) \in Manifests, told'[m] # "nothing",
                       NEW k \in chain'[By(m)]
                PROVE  m < k
    BY <1>2 DEF ChainsInOrder
  <2>1. By(m) \in Instances  BY <1>0, KnownFits
  <2>2. k \in chain[By(m)] /\ k # n /\ k \in Requests  BY <1>0, <1>4, <2>1, QueuedFits
  <2>3. CASE m = n
    <3>1. n <= k  BY <1>3, <2>2, <2>3 DEF First
    <3>2. n \in Nat /\ k \in Nat  BY <1>0, <2>2, <2>3, KnownFits
    <3>3. n # k  BY <2>2
    <3>. QED  BY <2>3, <3>1, <3>2, <3>3
  <2>4. CASE m # n
    BY <1>0, <1>1, <2>2, <2>4 DEF StoreInv, ChainsInOrder
  <2>. QED  BY <2>3, <2>4
<1>12. \A q \in Instances : Runs(q)' => Runs(q)
  BY <1>1, <1>5, <1>6 DEF Runs
<1>13. OneRunner'  BY <1>1, <1>12 DEF StoreInv, OneRunner
<1>14. StartsFirst'
  <2>1. ASSUME NEW m \in Known, Kind(m) = "start", m \in chain'[By(m)]
        PROVE  /\ starting'[By(m)] = "queued"
               /\ \A k \in chain'[By(m)] : Kind(k)' = "start" => k = m
    <3>1. By(m) \in Instances  BY <1>0, KnownFits
    <3>2. m \in chain[By(m)] /\ m # n  BY <1>4, <2>1, <3>1
    <3>3. /\ starting[By(m)] = "queued"
          /\ \A k \in chain[By(m)] : k \in Known /\ (Kind(k) = "start" => k = m)
      BY <2>1, <3>1, <3>2 DEF StoreInv, StartsFirst, ChainsFit
    <3>4. ~(Kind(n) = "start" /\ By(n) = By(m))  BY <1>6, <3>2, <3>3
    <3>. QED  BY <1>2, <1>4, <1>5, <3>1, <3>3, <3>4
  <2>2. ASSUME "run" \notin dirs \/ (\E q \in Instances : starting'[q] # "idle")
        PROVE  active' = {} /\ \A m \in Known : Kind(m) # "finalize"
    <3>1. "run" \notin dirs \/ (\E q \in Instances : starting[q] # "idle")
      BY <1>5, <2>2
    <3>2. active = {} /\ \A m \in Known : Kind(m) # "finalize"
      BY <3>1 DEF StoreInv, StartsFirst
    <3>3. Kind(n) # "start"
      <4>. SUFFICES ASSUME Kind(n) = "start"  PROVE FALSE
        OBVIOUS
      <4>1. Runs(By(n)) /\ "run" \in dirs  BY <1>0, <1>6 DEF StoreInv, OneRunner
      <4>2. PICK q \in Instances : starting'[q] # "idle"  BY <2>2, <4>1
      <4>3. q # By(n) /\ starting[q] # "idle"  BY <1>5, <4>2
      <4>4. Runs(q)  BY <4>3 DEF Runs
      <4>. QED  BY <1>0, <4>1, <4>3, <4>4 DEF StoreInv, OneRunner
    <3>. QED  BY <1>5, <3>2, <3>3
  <2>. QED  BY <1>1, <1>2, <2>1, <2>2 DEF StartsFirst
<1>15. FilesWhole'
  <2>. SUFFICES ASSUME NEW m \in Known, NEW g \in Files, Whole(m, g)  PROVE Whole(m, g)'
    BY <1>1, <1>2 DEF StoreInv, FilesWhole, Whole, File, Kind, By
  <2>0. By(m) \in Instances  BY <1>0, KnownFits
  <2>1. CASE m = n
    <3>1. answer = "ok"  BY <1>3, <2>1 DEF Whole
    <3>. QED  BY <1>1, <1>2, <2>1, <3>1 DEF Whole
  <2>2. CASE m # n
    BY <1>0, <1>1, <1>2, <1>4, <2>0, <2>2 DEF Whole
  <2>. QED  BY <2>1, <2>2
<1>16. StreamsInOrder'  BY <1>1, <1>2 DEF StoreInv, StreamsInOrder
<1>17. StreamsWhole'
  <2>1. Answered("append", "failed") \subseteq Answered("append", "failed")'
    BY <1>0, <1>1, <1>3 DEF Answered, Known, Kind
  <2>. QED  BY <1>1, <2>1 DEF StoreInv, StreamsWhole
<1>18. AppendedIsThere'
  BY <1>0, <1>1, <1>2, <1>3 DEF StoreInv, AppendedIsThere
<1>19. \A m \in Known : Landed(m)' => Landed(m)  BY <1>0, <1>1, <1>3 DEF Landed
<1>20. WrittenIsThere'  BY <1>1, <1>2, <1>19 DEF StoreInv, WrittenIsThere
<1>21. ResultStands'  BY <1>1, <1>2, <1>19 DEF StoreInv, ResultStands, Kind, By
<1>. QED
  BY <1>7, <1>8, <1>9, <1>10, <1>11, <1>13, <1>14, <1>15, <1>16, <1>17, <1>18, <1>20, <1>21
     DEF StoreInv

-----------------------------------------------------------------------------
(* The directories, and a crash.                                           *)

LEMMA DirectoryKeeps ==
  ASSUME StoreInv, StoreTypeOK', NEW p \in Instances, DirectoryStep(p)
  PROVE  StoreInv'
<1>0. StoreTypeOK  BY DEF StoreInv
<1>1. /\ UNCHANGED <<content, log, active, chain, appends, writing, requests, told, crashes>>
      /\ dirs \subseteq dirs'
  BY DEF DirectoryStep
<1>2. /\ \A q \in Instances : starting'[q] # starting[q] => q = p /\ starting[q] # "queued"
      /\ \A q \in Instances : starting'[q] # "idle" =>
           starting[q] # "idle" \/ (q = p /\ "run" \notin dirs /\ "run" \in dirs')
  BY <1>0 DEF DirectoryStep, StoreTypeOK
<1>3. RequestsFit' /\ ChainsFit' /\ AppendsFit' /\ ChainsInOrder'
  BY <1>1 DEF StoreInv, RequestsFit, ChainsFit, AppendsFit, ChainsInOrder, Known, Kind, By, File
<1>4. WritesFit' /\ FilesWhole'
  BY <1>1 DEF StoreInv, WritesFit, First, FilesWhole, Whole, Known, Kind, By, File
<1>5. StreamsInOrder' /\ StreamsWhole' /\ AppendedIsThere'
  BY <1>1 DEF StoreInv, StreamsInOrder, StreamsWhole, Answered, AppendedIsThere, Known, Kind, File
<1>6. WrittenIsThere' /\ ResultStands'
  BY <1>1 DEF StoreInv, WrittenIsThere, ResultStands, Landed, Known, Kind, By, File
<1>7. OneRunner'
  <2>1. \A q \in Instances : Runs(q)' => Runs(q) \/ (q = p /\ "run" \notin dirs /\ "run" \in dirs')
    BY <1>1, <1>2 DEF Runs
  <2>2. "run" \notin dirs => \A q \in Instances : ~Runs(q)  BY DEF StoreInv, OneRunner
  <2>. QED  BY <1>1, <2>1, <2>2 DEF StoreInv, OneRunner
<1>8. StartsFirst'
  <2>1. \A n \in Known : By(n) \in Instances  BY <1>0, KnownFits
  <2>2. \A n \in Known : Kind(n) = "start" /\ n \in chain[By(n)] =>
          /\ starting'[By(n)] = "queued"
          /\ \A m \in chain[By(n)] : Kind(m) = "start" => m = n
    BY <1>2, <2>1 DEF StoreInv, StartsFirst
  <2>3. "run" \notin dirs' \/ (\E q \in Instances : starting'[q] # "idle") =>
          "run" \notin dirs \/ (\E q \in Instances : starting[q] # "idle")
    BY <1>1, <1>2
  <2>4. "run" \notin dirs' \/ (\E q \in Instances : starting'[q] # "idle") =>
          active = {} /\ \A n \in Known : Kind(n) # "finalize"
    BY <2>3 DEF StoreInv, StartsFirst
  <2>. QED  BY <1>1, <2>2, <2>4 DEF StartsFirst, Known, Kind, By
<1>. QED  BY <1>3, <1>4, <1>5, <1>6, <1>7, <1>8 DEF StoreInv

LEMMA CrashKeeps ==
  ASSUME StoreInv, StoreTypeOK', NEW p \in Instances, Crash(p)
  PROVE  StoreInv'
<1>0. StoreTypeOK /\ Known \subseteq Requests /\ Requests \subseteq Nat  BY KnownFits DEF StoreInv
<1>1. /\ UNCHANGED <<dirs, content, requests, told>>
      /\ active' = active \ {p}
      /\ starting'[p] = "idle" /\ chain'[p] = {} /\ \A s \in Streams : appends'[p][s] = {}
      /\ \A q \in Instances \ {p} :
           /\ starting'[q] = starting[q] /\ chain'[q] = chain[q]
           /\ \A s \in Streams : appends'[q][s] = appends[q][s]
      /\ \A n \in Requests :
           writing'[n] = IF n \in Known /\ By(n) = p THEN "none" ELSE writing[n]
  BY <1>0 DEF Crash, StoreTypeOK, Known
<1>2. /\ Known' = Known
      /\ \A m \in Known : Kind(m)' = Kind(m) /\ By(m)' = By(m) /\ File(m)' = File(m)
  BY <1>1 DEF Known, Kind, By, File
<1>3. /\ \A q \in Instances : chain'[q] \subseteq chain[q]
      /\ \A q \in Instances : \A s \in Streams : appends'[q][s] \subseteq appends[q][s]
      /\ \A m \in Known : By(m) \in Instances
  BY <1>0, <1>1, KnownFits
<1>4. RequestsFit'
  BY <1>1 DEF StoreInv, RequestsFit, Known, Kind, File
<1>5. ChainsFit' /\ AppendsFit' /\ ChainsInOrder'
  BY <1>1, <1>2, <1>3 DEF StoreInv, ChainsFit, AppendsFit, ChainsInOrder
<1>6. WritesFit'
  <2>. SUFFICES ASSUME NEW m \in Requests, writing'[m] # "none"
                PROVE  /\ m \in Known' /\ Kind(m)' # "append" /\ told'[m] = "nothing"
                       /\ Kind(m)' \in Manifests => m \in First(chain'[By(m)'])
    BY DEF WritesFit, First
  <2>1. writing[m] # "none" /\ ~(m \in Known /\ By(m) = p)  BY <1>1
  <2>2. /\ m \in Known /\ Kind(m) # "append" /\ told[m] = "nothing"
        /\ Kind(m) \in Manifests => m \in First(chain[By(m)])
    BY <2>1 DEF StoreInv, WritesFit
  <2>3. chain'[By(m)] = chain[By(m)]  BY <1>1, <1>3, <2>1, <2>2
  <2>. QED  BY <1>1, <1>2, <2>2, <2>3
<1>7. \A q \in Instances : Runs(q)' => Runs(q)
  BY <1>1 DEF Runs
<1>8. OneRunner'  BY <1>1, <1>7 DEF StoreInv, OneRunner
<1>9. StartsFirst'
  <2>1. ASSUME NEW m \in Known, Kind(m) = "start", m \in chain'[By(m)]
        PROVE  /\ starting'[By(m)] = "queued"
               /\ \A k \in chain'[By(m)] : Kind(k)' = "start" => k = m
    <3>1. By(m) # p /\ chain'[By(m)] = chain[By(m)] /\ starting'[By(m)] = starting[By(m)]
      BY <1>1, <1>3, <2>1
    <3>2. \A k \in chain[By(m)] : k \in Known  BY <1>3 DEF StoreInv, ChainsFit
    <3>. QED  BY <1>2, <2>1, <3>1, <3>2 DEF StoreInv, StartsFirst
  <2>2. "run" \notin dirs \/ (\E q \in Instances : starting'[q] # "idle") =>
          active' = {} /\ \A m \in Known : Kind(m) # "finalize"
    BY <1>1 DEF StoreInv, StartsFirst
  <2>. QED  BY <1>1, <1>2, <2>1, <2>2 DEF StartsFirst
<1>10. FilesWhole'
  <2>. SUFFICES ASSUME NEW m \in Known, NEW g \in Files, Whole(m, g)  PROVE Whole(m, g)'
    BY <1>1, <1>2 DEF StoreInv, FilesWhole, Whole, File, Kind, By
  <2>. QED  BY <1>0, <1>1, <1>2, <1>3 DEF Whole
<1>11. \/ log' = log
       \/ \E s \in Streams, whole \in BOOLEAN : \E n \in NextAppend(p, s) :
            log' = [log EXCEPT ![s] = Append(@, [rec |-> n, whole |-> whole])]
  BY DEF Crash
<1>12. ASSUME log' = log  PROVE StreamsInOrder' /\ AppendedIsThere'
  <2>1. StreamsInOrder'  BY <1>2, <1>3, <1>12 DEF StoreInv, StreamsInOrder
  <2>2. AppendedIsThere'  BY <1>1, <1>2, <1>12 DEF StoreInv, AppendedIsThere
  <2>. QED  BY <2>1, <2>2
<1>13. ASSUME NEW s \in Streams, NEW whole \in BOOLEAN, NEW n \in NextAppend(p, s),
              log' = [log EXCEPT ![s] = Append(@, [rec |-> n, whole |-> whole])]
       PROVE  StreamsInOrder' /\ AppendedIsThere'
  <2>1. n \in Requests /\ n \in appends[p][s]  BY AppendBehind
  <2>2. \A q \in Instances : \A t \in Streams : appends'[q][t] = {}
    <3>1. \A q \in Instances \ {p} : \A t \in Streams : appends[q][t] = {}  BY <2>1, OneAppends
    <3>. QED  BY <1>1, <3>1
  <2>3. StreamsInOrder'  BY <1>1, <1>13, <2>2, OrderKept, ZenonT(40)
  <2>4. [rec |-> n, whole |-> whole] \in [rec : Requests, whole : BOOLEAN]  BY <2>1
  <2>5. \A t \in Streams : \A i \in DOMAIN log[t] : i \in DOMAIN log'[t] /\ log'[t][i] = log[t][i]
    BY <1>0, <1>13, <2>4, RecordsStay
  <2>6. AppendedIsThere'
    <3>. SUFFICES ASSUME NEW m \in Known, Kind(m) = "append", told[m] = "ok"
                  PROVE  \E i \in DOMAIN log'[File(m)] : log'[File(m)][i] = [rec |-> m, whole |-> TRUE]
      BY <1>1, <1>2 DEF AppendedIsThere
    <3>1. File(m) \in Streams  BY DEF StoreInv, RequestsFit
    <3>2. PICK i \in DOMAIN log[File(m)] : log[File(m)][i] = [rec |-> m, whole |-> TRUE]
      BY DEF StoreInv, AppendedIsThere
    <3>. QED  BY <2>5, <3>1, <3>2
  <2>. QED  BY <2>3, <2>6
<1>14. StreamsWhole'
  <2>1. crashes \in Nat /\ crashes' = crashes + 1
    BY <1>0 DEF Crash, StoreTypeOK
  <2>. QED  BY <2>1 DEF StreamsWhole
<1>15. \A m \in Known : Landed(m)' => Landed(m)  BY <1>0, <1>1 DEF Landed
<1>16. WrittenIsThere'  BY <1>1, <1>2, <1>15 DEF StoreInv, WrittenIsThere
<1>17. ResultStands'  BY <1>1, <1>2, <1>15 DEF StoreInv, ResultStands, Kind, By
<1>. QED
  BY <1>4, <1>5, <1>6, <1>8, <1>9, <1>10, <1>11, <1>12, <1>13, <1>14, <1>16, <1>17 DEF StoreInv

LEMMA StutterKeeps ==
  ASSUME StoreInv, StoreTypeOK', UNCHANGED storeVars
  PROVE  StoreInv'
<1>1. UNCHANGED <<dirs, content, log, active, starting, chain, appends, writing, requests, told, crashes>>
  BY DEF storeVars, diskVars, memoryVars, historyVars
<1>2. WritesFit' /\ FilesWhole'
  BY <1>1 DEF StoreInv, WritesFit, First, FilesWhole, Whole, Known, Kind, By, File
<1>3. WrittenIsThere' /\ ResultStands'
  BY <1>1 DEF StoreInv, WrittenIsThere, ResultStands, Landed, Known, Kind, By, File
<1>. QED  BY <1>1, <1>2, <1>3, FrameKept DEF StoreInv

-----------------------------------------------------------------------------
(* The theorem.                                                            *)

LEMMA StoreInvHolds == StoreSpec => []StoreInv
<1>1. StoreTypeOK /\ StoreInit => StoreInv
  <2>. SUFFICES ASSUME StoreTypeOK, StoreInit  PROVE StoreInv
    OBVIOUS
  <2>1. Known = {}  BY DEF StoreInit, Known
  <2>2. RequestsFit /\ ChainsFit /\ AppendsFit /\ WritesFit /\ ChainsInOrder
    BY <2>1 DEF StoreInit, RequestsFit, ChainsFit, AppendsFit, WritesFit, ChainsInOrder
  <2>3. OneRunner /\ StartsFirst
    BY <2>1 DEF StoreInit, OneRunner, Runs, StartsFirst
  <2>4. FilesWhole /\ AppendedIsThere /\ WrittenIsThere /\ ResultStands
    BY <2>1 DEF StoreInit, FilesWhole, AppendedIsThere, WrittenIsThere, ResultStands
  <2>5. \A s \in Streams : DOMAIN log[s] = {}  BY DEF StoreInit
  <2>6. StreamsInOrder /\ StreamsWhole
    BY <2>5 DEF StreamsInOrder, StreamsWhole
  <2>. QED  BY <2>2, <2>3, <2>4, <2>6 DEF StoreInv
<1>2. StoreTypeOK' /\ StoreInv /\ [StoreNext]_storeVars => StoreInv'
  <2>. SUFFICES ASSUME StoreTypeOK', StoreInv, [StoreNext]_storeVars  PROVE StoreInv'
    OBVIOUS
  <2>1. StoreTypeOK /\ Known \subseteq Requests  BY KnownFits DEF StoreInv
  <2>. QED  BY <2>1, StepsAre, AskKeeps, AppendKeeps, MoveKeeps, SettleKeeps, DirectoryKeeps,
               CrashKeeps, StutterKeeps
<1>. QED  BY <1>1, <1>2, StoreTypeCorrect, PTL DEF StoreSpec

\* What the store has acknowledged stays readable, whatever fails or crashes later and
\* whichever instance rewrites it: an append whole and in the order of the calls, a
\* manifest, a result; what it refused has changed nothing, and an earlier manifest of
\* an instance never replaces a later one.
THEOREM WhatIsAcknowledgedStays == StoreSpec => []AcknowledgedIsReadable
<1>1. StoreInv => AcknowledgedIsReadable
  <2>. SUFFICES ASSUME StoreInv  PROVE AcknowledgedIsReadable
    OBVIOUS
  <2>0. StoreTypeOK /\ Known \subseteq Requests /\ Requests \subseteq Nat /\ "run" \in Files
    BY KnownFits DEF StoreInv, Files
  <2>1. \A f \in Files : content[f] # 0 => content[f] \in Known /\ content[f] > 0
    <3>1. MaxRequests \in Nat  BY StoreAssumption DEF StoreAssumption
    <3>2. \A n \in Requests : n > 0  BY <3>1 DEF Requests
    <3>. QED  BY <2>0, <3>2 DEF StoreInv, FilesWhole, Whole
  <2>2. AppendsInOrder
    BY DEF StoreInv, StreamsInOrder, AppendedIsThere, AppendsInOrder, Answered, Known, Kind
  <2>3. Answered("start", "ok") # {} => ReadRunManifest = "ok"
    <3>. SUFFICES ASSUME NEW n \in Known, Kind(n) = "start", told[n] = "ok"
                  PROVE  content["run"] > 0
      BY DEF Answered, ReadRunManifest, Known, Kind
    <3>1. File(n) = "run"  BY DEF StoreInv, RequestsFit, Manifests
    <3>. QED  BY <2>0, <2>1, <3>1 DEF StoreInv, WrittenIsThere, Landed
  <2>4. \A n \in Answered("finalize", "ok") :
          /\ ReadRunResult = "ok"
          /\ content["run"] >= n \/ By(content["run"]) # By(n)
    BY <2>0, <2>1 DEF StoreInv, ResultStands, Landed, Answered, ReadRunResult, IsResult, Known, Kind
  <2>5. \A n \in Answered("result", "ok") : ReadCaseResult(File(n)) = "ok"
    <3>. SUFFICES ASSUME NEW n \in Known, Kind(n) = "result", told[n] = "ok"
                  PROVE  content[File(n)] > 0
      BY DEF Answered, ReadCaseResult, Known, Kind
    <3>1. File(n) \in Files  BY DEF StoreInv, RequestsFit, Files
    <3>. QED  BY <2>1, <3>1 DEF StoreInv, WrittenIsThere, Landed
  <2>6. ASSUME crashes = 0 /\ Answered("append", "failed") = {}, NEW n \in Answered("append", "ok")
        PROVE  \E i \in DOMAIN ReadEvents(File(n)) : ReadEvents(File(n))[i] = n
    <3>1. n \in Known /\ Kind(n) = "append" /\ told[n] = "ok"
      BY DEF Answered, Known, Kind
    <3>2. File(n) \in Streams  BY <3>1 DEF StoreInv, RequestsFit
    <3>3. \A i \in DOMAIN log[File(n)] : log[File(n)][i].whole
      BY <2>6, <3>2 DEF StoreInv, StreamsWhole
    <3>4. PICK i \in DOMAIN log[File(n)] : log[File(n)][i] = [rec |-> n, whole |-> TRUE]
      BY <3>1 DEF StoreInv, AppendedIsThere
    <3>5. ReadEvents(File(n)) = [j \in DOMAIN log[File(n)] |-> log[File(n)][j].rec]
      BY <3>3 DEF ReadEvents
    <3>. QED  BY <3>4, <3>5
  <2>7. ASSUME NEW n \in Known, told[n] = "failed", File(n) \in Files
        PROVE  content[File(n)] # n
    <3>1. MaxRequests \in Nat  BY StoreAssumption DEF StoreAssumption
    <3>2. n # 0  BY <2>0, <3>1 DEF Requests
    <3>. QED  BY <2>7, <3>2 DEF StoreInv, FilesWhole, Whole
  <2>. QED
    BY <2>2, <2>3, <2>4, <2>5, <2>6, <2>7 DEF AcknowledgedIsReadable, Known
<1>. QED  BY <1>1, StoreInvHolds, PTL

-----------------------------------------------------------------------------
(***************************************************************************)
(* What a session of the agent promises, for any lines of output: the      *)
(* stored evidence is the output (EvidenceIsOutput), and the result says   *)
(* no more than that bears out (OutcomeIsHonest). Lines and notes wait in  *)
(* their order, so that what was dealt with is a prefix of what was        *)
(* printed; the invariant says of that prefix, as it is and as it is kept, *)
(* what was stored, told and found.                                        *)
(***************************************************************************)

-----------------------------------------------------------------------------
(* Sequences, and what is kept of one.                                     *)

\* Some member of a set of naturals is the least: induction over the naturals.
LEMMA LeastNumber ==
  ASSUME NEW T, T \subseteq Nat, T # {}
  PROVE  \E x \in T : \A y \in T : x <= y
<1>1. IsWellFoundedOn(OpToRel(<,Nat), Nat)  BY NatLessThanWellFounded
<1>2. PICK x \in T : \A y \in T : ~(<<y, x>> \in OpToRel(<,Nat))
  BY <1>1, WFMin, Zenon
<1>3. \A y \in T : ~(y < x) BY <1>2 DEF OpToRel
<1>. QED BY <1>3

\* Kept is the function its definition asks for.
LEMMA KeptIs ==
  ASSUME NEW S, NEW s \in Seq(S), NEW kinds
  PROVE  Kept(s, kinds) =
           [n \in 0..Len(s) |->
              IF n = 0 THEN <<>>
              ELSE IF s[n].kind \in kinds THEN Append(Kept(s, kinds)[n - 1], s[n]) ELSE Kept(s, kinds)[n - 1]]
<1>. DEFINE Step(g, n) == IF n = 0 THEN <<>>
                          ELSE IF s[n].kind \in kinds THEN Append(g[n - 1], s[n]) ELSE g[n - 1]
            Bad == {m \in 0..Len(s) : ~\E g : g = [n \in 0..m |-> Step(g, n)]}
<1>0. Len(s) \in Nat  OBVIOUS
<1>1. Bad = {}
  <2>1. SUFFICES ASSUME Bad # {} PROVE FALSE  OBVIOUS
  <2>2. Bad \subseteq Nat  BY <1>0
  <2>3. PICK m \in Bad : \A k \in Bad : m <= k
    <3>. HIDE DEF Bad
    <3>. QED  BY <2>1, <2>2, LeastNumber
  <2>4. m \in 0..Len(s) /\ ~\E g : g = [n \in 0..m |-> Step(g, n)]  OBVIOUS
  <2>5. CASE m = 0
    <3>. DEFINE g == [n \in 0..0 |-> <<>>]
    <3>1. g = [n \in 0..0 |-> Step(g, n)]  OBVIOUS
    <3>. QED  BY <2>4, <2>5, <3>1
  <2>6. CASE m # 0
    <3>1. m - 1 \in 0..Len(s) /\ ~(m <= m - 1)  BY <1>0, <2>4, <2>6
    <3>2. m - 1 \notin Bad
      <4>. HIDE DEF Bad
      <4>. QED  BY <2>3, <3>1
    <3>3. PICK g : g = [n \in 0..(m - 1) |-> Step(g, n)]  BY <3>1, <3>2
    <3>. DEFINE h == [n \in 0..m |-> IF n = m THEN Step(g, m) ELSE g[n]]
    <3>4. \A n \in 0..(m - 1) : g[n] = Step(g, n)  BY <3>3
    <3>5. \A n \in 0..m : h[n] = Step(h, n)
      <4>1. TAKE n \in 0..m
      <4>2. n # 0 => h[n - 1] = g[n - 1] /\ n - 1 \in 0..(m - 1)  BY <2>4
      <4>3. Step(h, n) = Step(g, n)  BY <4>2
      <4>4. CASE n = m  BY <4>3, <4>4
      <4>5. CASE n # m
        <5>1. n \in 0..(m - 1)  BY <2>4, <4>5
        <5>2. h[n] = g[n]  BY <4>5
        <5>. QED  BY <3>4, <4>3, <5>1, <5>2
      <4>. QED  BY <4>4, <4>5
    <3>6. h = [n \in 0..m |-> h[n]]  OBVIOUS
    <3>7. h = [n \in 0..m |-> Step(h, n)]
      <4>. HIDE DEF h, Step
      <4>. QED  BY <3>5, <3>6
    <3>. QED  BY <2>4, <3>7
  <2>. QED  BY <2>5, <2>6
<1>2. \E g : g = [n \in 0..Len(s) |-> Step(g, n)]
  <2>1. Len(s) \in 0..Len(s)  BY <1>0
  <2>. HIDE DEF Step
  <2>. QED  BY <1>1, <2>1
<1>3. Kept(s, kinds) = CHOOSE g : g = [n \in 0..Len(s) |-> Step(g, n)]
  BY DEF Kept
<1>. HIDE DEF Bad, Step
<1>4. Kept(s, kinds) = [n \in 0..Len(s) |-> Step(Kept(s, kinds), n)]
  BY <1>2, <1>3
<1>. QED  BY <1>4 DEF Step

\* What is kept of one more line.
LEMMA KeptNext ==
  ASSUME NEW S, NEW s \in Seq(S), NEW kinds
  PROVE  /\ Kept(s, kinds)[0] = <<>>
         /\ \A n \in 0..(Len(s) - 1) :
              Kept(s, kinds)[n + 1] =
                IF s[n + 1].kind \in kinds THEN Append(Kept(s, kinds)[n], s[n + 1]) ELSE Kept(s, kinds)[n]
<1>. DEFINE K == Kept(s, kinds)
<1>0. Len(s) \in Nat  OBVIOUS
<1>1. K = [n \in 0..Len(s) |-> IF n = 0 THEN <<>>
                               ELSE IF s[n].kind \in kinds THEN Append(K[n - 1], s[n]) ELSE K[n - 1]]
  BY KeptIs
<1>. HIDE DEF K
<1>2. K[0] = <<>>  BY <1>0, <1>1
<1>3. ASSUME NEW n \in 0..(Len(s) - 1)
      PROVE  K[n + 1] = IF s[n + 1].kind \in kinds THEN Append(K[n], s[n + 1]) ELSE K[n]
  <2>1. n + 1 \in 0..Len(s) /\ n + 1 # 0 /\ (n + 1) - 1 = n  BY <1>0
  <2>2. K[n + 1] = IF s[n + 1].kind \in kinds THEN Append(K[(n + 1) - 1], s[n + 1]) ELSE K[(n + 1) - 1]
    BY <1>1, <2>1
  <2>. QED  BY <2>1, <2>2
<1>. QED  BY <1>2, <1>3 DEF K

\* It is a sequence of lines.
LEMMA KeptType ==
  ASSUME NEW S, NEW s \in Seq(S), NEW kinds
  PROVE  \A n \in 0..Len(s) : Kept(s, kinds)[n] \in Seq(S)
<1>. DEFINE K == Kept(s, kinds)
            Bad == {m \in 0..Len(s) : K[m] \notin Seq(S)}
<1>0. Len(s) \in Nat /\ \A i \in 1..Len(s) : s[i] \in S  OBVIOUS
<1>1. /\ K[0] = <<>>
      /\ \A n \in 0..(Len(s) - 1) : K[n + 1] = IF s[n + 1].kind \in kinds THEN Append(K[n], s[n + 1]) ELSE K[n]
  BY KeptNext
<1>2. ASSUME Bad # {} PROVE FALSE
  <2>1. Bad \subseteq Nat  BY <1>0
  <2>2. PICK m \in Bad : \A k \in Bad : m <= k
    <3>. HIDE DEF Bad
    <3>. QED  BY <1>2, <2>1, LeastNumber
  <2>3. m \in 0..Len(s) /\ K[m] \notin Seq(S) /\ m # 0
    <3>1. <<>> \in Seq(S)  OBVIOUS
    <3>. HIDE DEF K
    <3>. QED  BY <1>1, <2>2, <3>1
  <2>4. m - 1 \in 0..(Len(s) - 1) /\ ~(m <= m - 1) /\ (m - 1) + 1 = m  BY <1>0, <2>3
  <2>5. m - 1 \notin Bad
    <3>. HIDE DEF Bad
    <3>. QED  BY <2>2, <2>4
  <2>6. K[m - 1] \in Seq(S)
    <3>. HIDE DEF K
    <3>. QED  BY <1>0, <2>4, <2>5
  <2>7. K[m] = IF s[m].kind \in kinds THEN Append(K[m - 1], s[m]) ELSE K[m - 1]
    <3>. HIDE DEF K
    <3>. QED  BY <1>1, <2>4
  <2>. HIDE DEF K
  <2>. QED  BY <1>0, <2>3, <2>6, <2>7
<1>. QED  BY <1>2

\* What is kept of the first lines does not change when a line is added.
LEMMA KeptGrows ==
  ASSUME NEW S, NEW s \in Seq(S), NEW x \in S, NEW kinds
  PROVE  \A n \in 0..Len(s) : Kept(Append(s, x), kinds)[n] = Kept(s, kinds)[n]
<1>. DEFINE t == Append(s, x)
            K == Kept(s, kinds)
            L == Kept(t, kinds)
            Bad == {m \in 0..Len(s) : L[m] # K[m]}
<1>0. Len(s) \in Nat /\ t \in Seq(S) /\ Len(t) = Len(s) + 1 /\ \A i \in 1..Len(s) : t[i] = s[i]  OBVIOUS
<1>1. /\ K[0] = <<>>
      /\ \A n \in 0..(Len(s) - 1) : K[n + 1] = IF s[n + 1].kind \in kinds THEN Append(K[n], s[n + 1]) ELSE K[n]
  BY KeptNext
<1>2. /\ L[0] = <<>>
      /\ \A n \in 0..(Len(t) - 1) : L[n + 1] = IF t[n + 1].kind \in kinds THEN Append(L[n], t[n + 1]) ELSE L[n]
  <2>. HIDE DEF t
  <2>. QED  BY <1>0, KeptNext
<1>. HIDE DEF t, K, L
<1>3. ASSUME Bad # {} PROVE FALSE
  <2>1. Bad \subseteq Nat  BY <1>0
  <2>2. PICK m \in Bad : \A k \in Bad : m <= k
    <3>. HIDE DEF Bad
    <3>. QED  BY <1>3, <2>1, LeastNumber
  <2>3. m \in 0..Len(s) /\ L[m] # K[m] /\ m # 0  BY <1>1, <1>2
  <2>4. m - 1 \in 0..(Len(s) - 1) /\ m - 1 \in 0..(Len(t) - 1) /\ ~(m <= m - 1) /\ (m - 1) + 1 = m
    BY <1>0, <2>3
  <2>5. m - 1 \notin Bad
    <3>. HIDE DEF Bad
    <3>. QED  BY <2>2, <2>4
  <2>6. L[m - 1] = K[m - 1]  BY <1>0, <2>4, <2>5
  <2>7. t[m] = s[m]  BY <1>0, <2>3
  <2>8. L[m] = K[m]  BY <1>1, <1>2, <2>4, <2>6, <2>7
  <2>. QED  BY <2>3, <2>8
<1>. QED  BY <1>3 DEF K, L, t

LEMMA PrefixIs ==
  ASSUME NEW S, NEW s \in Seq(S), NEW t \in Seq(S)
  PROVE  IsPrefix(s, t) <=> Len(s) <= Len(t) /\ \A i \in 1..Len(s) : s[i] = t[i]
BY DEF IsPrefix

\* What is kept of fewer lines comes first.
LEMMA KeptIsPrefix ==
  ASSUME NEW S, NEW s \in Seq(S), NEW kinds, NEW n \in 0..Len(s)
  PROVE  IsPrefix(Kept(s, kinds)[n], Kept(s, kinds)[Len(s)])
<1>. DEFINE K == Kept(s, kinds)
            Below(m) == Len(K[n]) <= Len(K[m]) /\ \A i \in 1..Len(K[n]) : K[n][i] = K[m][i]
            Bad == {m \in n..Len(s) : ~Below(m)}
<1>0. Len(s) \in Nat /\ \A i \in 1..Len(s) : s[i] \in S  OBVIOUS
<1>1. \A m \in 0..(Len(s) - 1) : K[m + 1] = IF s[m + 1].kind \in kinds THEN Append(K[m], s[m + 1]) ELSE K[m]
  BY KeptNext
<1>2. \A m \in 0..Len(s) : K[m] \in Seq(S)  BY KeptType
<1>. HIDE DEF K
<1>3. ASSUME Bad # {} PROVE FALSE
  <2>1. Bad \subseteq Nat  BY <1>0
  <2>2. PICK m \in Bad : \A k \in Bad : m <= k
    <3>. HIDE DEF Bad
    <3>. QED  BY <1>3, <2>1, LeastNumber
  <2>3. m \in n..Len(s) /\ ~Below(m) /\ m # n
    <3>1. Below(n)
      <4>1. K[n] \in Seq(S)  BY <1>2
      <4>2. Len(K[n]) \in Nat  BY <4>1
      <4>. QED  BY <4>2
    <3>2. m \in n..Len(s) /\ ~Below(m)  OBVIOUS
    <3>. HIDE DEF Below, Bad
    <3>. QED  BY <3>1, <3>2
  <2>4. m - 1 \in n..Len(s) /\ m - 1 \in 0..(Len(s) - 1) /\ ~(m <= m - 1) /\ (m - 1) + 1 = m
    BY <1>0, <2>3
  <2>5. m - 1 \notin Bad
    <3>. HIDE DEF Bad
    <3>. QED  BY <2>2, <2>4
  <2>6. Below(m - 1)  BY <2>4, <2>5
  <2>7. K[m] = IF s[m].kind \in kinds THEN Append(K[m - 1], s[m]) ELSE K[m - 1]  BY <1>1, <2>4
  <2>8. K[m - 1] \in Seq(S) /\ K[n] \in Seq(S) /\ s[m] \in S  BY <1>0, <1>2, <2>3, <2>4
  <2>9. Below(m)  BY <2>6, <2>7, <2>8
  <2>. QED  BY <2>3, <2>9
<1>4. Below(Len(s))  BY <1>0, <1>3
<1>5. K[n] \in Seq(S) /\ K[Len(s)] \in Seq(S)  BY <1>0, <1>2
<1>. QED  BY <1>4, <1>5, PrefixIs DEF K

\* How many lines, and how many notes, were dealt with.
Dealt == Len(output) - Len(queue) - Len(buffer)
Noted == notes - Len(noteQueue)
\* What is kept of them, of some kinds.
KeptOf(kinds) == Kept(output, kinds)[Dealt]
Stored == KeptOf(Consumed)
Spoiled == \E i \in DOMAIN Stored : Stored[i].kind = "unredactable"

\* The lines that wait are the last ones, and those of stderr the last numbers.
WaitingFit ==
  /\ Dealt \in 0..Len(output)
  /\ \A i \in 1..Len(queue) : queue[i] = output[Dealt + i]
  /\ buffer = <<>> \/ (Len(buffer) = 1 /\ buffer[1] = output[Len(output)])
  /\ Noted \in 0..notes
  /\ \A i \in 1..Len(noteQueue) : noteQueue[i] = Noted + i
  /\ mode = "call" => notes = 0

\* Nothing is left once the result is known; what never ran printed nothing.
ProcessFit ==
  /\ stage = "running" <=> process = Running
  /\ process # Running => buffer = <<>> /\ process \in Endings
  /\ Decided => Delivered
  /\ process # Running /\ ~Launched(process) => output = <<>> /\ notes = 0

\* A chain sends what it has first.
SendingFit ==
  /\ sending["stdout"] # "nothing" => queue # <<>> /\ mode = "case"
  /\ sending["stdout"] = "event" => queue[1].kind \in {"part", "error"}
  /\ sending["stdout"] = "diagnostic" => queue[1].kind = "malformed" /\ failure # "none"
  /\ sending["stderr"] # "nothing" => noteQueue # <<>> /\ mode = "case" /\ sending["stderr"] = "diagnostic"

\* What is stored is what was dealt with, until it stops.
StoredFit ==
  /\ IsPrefix(events, Stored)
  /\ \A i \in DOMAIN events : events[i].kind # "unredactable"
  /\ "events" \notin stopped => events = Stored
  /\ "events" \in stopped /\ ~appendFailed => Spoiled
  /\ Spoiled => appendFailed \/ failure # "none"
  /\ sending["stdout"] = "event" => "events" \notin stopped
  /\ mode = "call" => ~appendFailed

\* Each note so far has its diagnostic, and so has each malformed line.
Told(d, k) == \A n \in 1..k : \E i \in DOMAIN d : d[i] = n
NotedFit ==
  mode = "case" /\ ~appendFailed =>
    /\ "diagnostics" \notin stopped
    /\ Told(diagnostics, Noted)
    /\ Len(diagnostics) = Noted + Len(KeptOf({"malformed"}))
                          + (IF Decided /\ ~Launched(process) THEN 1 ELSE 0)

\* The session is the first record's, the one that is on its way included.
Met == IF sending["stdout"] = "event" THEN Append(Stored, queue[1]) ELSE Stored
SessionFits ==
  /\ session = IF Met = <<>> THEN "none" ELSE Met[1].session
  /\ Met # <<>> => session # "none"

FailureFits ==
  /\ failure = "none" => \A i \in 1..Dealt : output[i].kind \notin {"malformed", "layout"}
  /\ failure = "none" /\ mode = "call" /\ ~anyError => \A i \in DOMAIN Stored : Stored[i].kind # "error"
  /\ failure = "none" /\ mode = "case" /\ ~appendFailed /\ ~rootError =>
       \A i \in DOMAIN Stored : Stored[i].kind = "error" => Stored[i].session # session

SettledFits ==
  /\ mode = "case" /\ Decided => result = CaseResult
  /\ mode = "case" /\ stage = "exporting" => session # "none"
  /\ mode = "call" /\ stage = "exporting" => CallEnd = "none"
  /\ mode = "call" /\ stage = "returned" /\ result = "ok" => CallEnd = "none" /\ exported = "ok"
  /\ mode = "call" => reported = IF stage = "returned" /\ Launched(process) THEN 1 ELSE 0

SessionInv ==
  /\ SessionTypeOK /\ WaitingFit /\ ProcessFit /\ SendingFit
  /\ StoredFit /\ NotedFit /\ SessionFits /\ FailureFits /\ SettledFits

-----------------------------------------------------------------------------
(* The steps of a session, by what they do to the lines.                   *)

TypesOf(l) == /\ l.kind \in Consumed \cup {"additive", "malformed", "layout"}
              /\ l.session \in Sessions \cup {"none"}

LEMMA LineTypes == \A l \in Lines : TypesOf(l)
BY SessionAssumption DEF TypesOf, LineKinds

\* The first of the lines that wait.
LEMMA FirstInLine ==
  ASSUME NEW S, NEW s \in Seq(S), s # <<>>
  PROVE  /\ Head(s) = s[1] /\ s[1] \in S /\ Tail(s) \in Seq(S) /\ Len(Tail(s)) = Len(s) - 1
         /\ Len(s) \in Nat \ {0} /\ \A i \in 1..Len(Tail(s)) : Tail(s)[i] = s[i + 1]
OBVIOUS

\* What a step does to the lines of output.
Deals == /\ queue # <<>> /\ queue' = Tail(queue) /\ UNCHANGED <<output, buffer>>
Chains == /\ buffer # <<>> \/ buffer' = buffer
          /\ queue' = queue \o buffer /\ buffer' = <<>> /\ UNCHANGED output
Prints == /\ buffer = <<>> /\ UNCHANGED queue
          /\ \E l \in Lines : output' = Append(output, l) /\ buffer' = <<l>>
Leaves == UNCHANGED <<output, buffer, queue>>

LEMMA LinesMove ==
  ASSUME SessionInv, SessionNext
  PROVE  Deals \/ Chains \/ Prints \/ Leaves
<1>1. CASE \E l \in Lines : PrintLine(l)  BY <1>1 DEF PrintLine, Prints
<1>2. CASE EndLine \/ ProcessEnds  BY <1>2 DEF EndLine, ProcessEnds, Chains
<1>3. CASE PrintNote \/ HandleNote \/ DecideCase \/ DecideCall
  BY <1>3 DEF PrintNote, HandleNote, DecideCase, DecideCall, outputVars, chainVars, Leaves
<1>4. CASE HandleLine
  BY <1>4 DEF HandleLine, SkipMalformed, RefuseLayout, IgnoreAdditive, DeliverRecord, outputVars, Deals, Leaves
<1>5. CASE EventAppended
  BY <1>5 DEF EventAppended, SessionInv, SendingFit, outputVars, Deals
<1>6. CASE \E c \in {"stdout", "stderr"} : DiagnosticAppended(c)
  BY <1>6 DEF DiagnosticAppended, SessionInv, SendingFit, outputVars, Deals, Leaves
<1>7. CASE \E end \in Endings, document \in Documents : ExportSession(end, document) \/ ExportReply(end, document)
  BY <1>7 DEF ExportSession, ExportReply, outputVars, chainVars, Leaves
<1>. QED  BY <1>1, <1>2, <1>3, <1>4, <1>5, <1>6, <1>7 DEF SessionNext

LEMMA SeqTypes ==
  ASSUME SessionInv
  PROVE  /\ output \in Seq(Lines) /\ buffer \in Seq(Lines) /\ queue \in Seq(Lines) /\ noteQueue \in Seq(1..MaxNotes)
         /\ Len(output) \in Nat /\ Len(buffer) \in Nat /\ Len(queue) \in Nat /\ Len(noteQueue) \in Nat /\ notes \in Nat
         /\ Dealt = Len(output) - Len(queue) - Len(buffer) /\ Dealt \in 0..Len(output)
         /\ Noted = notes - Len(noteQueue) /\ Noted \in 0..notes
BY SessionAssumption DEF SessionInv, SessionTypeOK, WaitingFit, Dealt, Noted

\* The lines wait in their order; a line that is dealt with is the next one.
LEMMA Dealing ==
  ASSUME SessionInv, SessionNext
  PROVE  /\ output' \in Seq(Lines) /\ buffer' \in Seq(Lines) /\ queue' \in Seq(Lines)
         /\ Dealt' \in 0..Len(output')
         /\ \A i \in 1..Len(queue') : queue'[i] = output'[Dealt' + i]
         /\ buffer' = <<>> \/ (Len(buffer') = 1 /\ buffer'[1] = output'[Len(output')])
         /\ \A i \in 1..Dealt : output'[i] = output[i]
         /\ \/ Deals /\ Dealt' = Dealt + 1 /\ output[Dealt + 1] = queue[1] /\ queue[1] \in Lines
            \/ ~Deals /\ Dealt' = Dealt
<1>0. /\ output \in Seq(Lines) /\ buffer \in Seq(Lines) /\ queue \in Seq(Lines)
      /\ Len(output) \in Nat /\ Len(buffer) \in Nat /\ Len(queue) \in Nat
      /\ Dealt = Len(output) - Len(queue) - Len(buffer) /\ Dealt \in 0..Len(output)
      /\ \A i \in 1..Len(queue) : queue[i] = output[Dealt + i]
      /\ buffer = <<>> \/ (Len(buffer) = 1 /\ buffer[1] = output[Len(output)])
      /\ Dealt' = Len(output') - Len(queue') - Len(buffer')
  BY SeqTypes DEF SessionInv, WaitingFit, Dealt
<1>. HIDE DEF Dealt
<1>1. CASE Leaves
  <2>1. ~Deals
    BY <1>0, <1>1, FirstInLine DEF Leaves, Deals
  <2>. QED  BY <1>0, <1>1, <2>1 DEF Leaves
<1>2. CASE Deals
  <2>1. /\ queue[1] \in Lines /\ Tail(queue) \in Seq(Lines) /\ Len(Tail(queue)) = Len(queue) - 1
        /\ Len(queue) \in Nat \ {0} /\ \A i \in 1..Len(Tail(queue)) : Tail(queue)[i] = queue[i + 1]
    BY <1>0, <1>2, FirstInLine DEF Deals
  <2>2. Dealt' = Dealt + 1 /\ output[Dealt + 1] = queue[1] /\ Dealt + 1 \in 0..Len(output)
    BY <1>0, <1>2, <2>1 DEF Deals
  <2>3. ASSUME NEW i \in 1..Len(queue')  PROVE queue'[i] = output'[Dealt' + i]
    <3>1. queue' = Tail(queue) /\ output' = output  BY <1>2 DEF Deals
    <3>2. i \in 1..Len(Tail(queue)) /\ i + 1 \in 1..Len(queue)  BY <1>0, <2>1, <2>3, <3>1
    <3>3. queue'[i] = queue[i + 1]  BY <2>1, <3>1, <3>2
    <3>4. queue[i + 1] = output[Dealt + (i + 1)]  BY <1>0, <3>2
    <3>5. Dealt + (i + 1) = Dealt' + i
      <4>1. i \in Int /\ Dealt \in Int  BY <1>0, <2>1, <3>2
      <4>2. Dealt' = Dealt + 1  BY <2>2
      <4>. QED  BY <4>1, <4>2
    <3>. QED  BY <3>1, <3>3, <3>4, <3>5
  <2>. QED  BY <1>0, <1>2, <2>1, <2>2, <2>3 DEF Deals
<1>3. CASE Chains
  <2>1. /\ queue \o buffer \in Seq(Lines) /\ Len(queue \o buffer) = Len(queue) + Len(buffer)
        /\ \A i \in 1..Len(queue) : (queue \o buffer)[i] = queue[i]
        /\ \A i \in (Len(queue) + 1)..(Len(queue) + Len(buffer)) : (queue \o buffer)[i] = buffer[i - Len(queue)]
    BY <1>0
  <2>2. Dealt' = Dealt  BY <1>0, <1>3, <2>1 DEF Chains
  <2>3. ASSUME NEW i \in 1..Len(queue')  PROVE queue'[i] = output'[Dealt' + i]
    <3>1. CASE i \in 1..Len(queue)  BY <1>0, <1>3, <2>1, <2>2, <3>1 DEF Chains
    <3>2. CASE i = Len(queue) + 1 /\ Len(buffer) = 1
      BY <1>0, <1>3, <2>1, <2>2, <3>2 DEF Chains
    <3>3. buffer = <<>> => Len(buffer) = 0  OBVIOUS
    <3>. QED  BY <1>0, <1>3, <2>1, <3>1, <3>2, <3>3, SMTT(40) DEF Chains
  <2>4. ~Deals
    <3>1. Deals => Len(queue') = Len(queue) - 1  BY <1>0, FirstInLine DEF Deals
    <3>. QED  BY <1>0, <1>3, <2>1, <3>1 DEF Chains
  <2>. QED  BY <1>0, <1>3, <2>1, <2>2, <2>3, <2>4, SMTT(40) DEF Chains
<1>4. CASE Prints
  <2>1. PICK l \in Lines : output' = Append(output, l) /\ buffer' = <<l>>  BY <1>4 DEF Prints
  <2>2. /\ output' \in Seq(Lines) /\ Len(output') = Len(output) + 1 /\ output'[Len(output')] = l
        /\ \A i \in 1..Len(output) : output'[i] = output[i]
        /\ buffer' \in Seq(Lines) /\ Len(buffer') = 1 /\ buffer'[1] = l
    BY <1>0, <2>1
  <2>3. queue' = queue /\ Len(buffer) = 0  BY <1>4 DEF Prints
  <2>4. Dealt' = Dealt  BY <1>0, <2>2, <2>3
  <2>5. ~Deals
    <3>1. SUFFICES ASSUME buffer' = buffer PROVE FALSE  BY DEF Deals
    <3>2. Len(buffer') = Len(buffer)  BY <3>1
    <3>. QED  BY <2>2, <2>3, <3>2
  <2>6. ASSUME NEW i \in 1..Len(queue')  PROVE queue'[i] = output'[Dealt' + i]
    <3>1. i \in 1..Len(queue) /\ Dealt + i \in 1..Len(output)  BY <1>0, <2>3, <2>6
    <3>. QED  BY <1>0, <2>2, <2>3, <2>4, <3>1
  <2>7. Dealt' \in 0..Len(output') /\ queue' \in Seq(Lines) /\ \A i \in 1..Dealt : output'[i] = output[i]
    <3>1. 1..Dealt \subseteq 1..Len(output)  BY <1>0
    <3>2. Dealt' \in 0..Len(output')  BY <1>0, <2>2, <2>4
    <3>. QED  BY <1>0, <2>2, <2>3, <3>1, <3>2
  <2>. QED  BY <2>2, <2>4, <2>5, <2>6, <2>7
<1>. QED  BY <1>1, <1>2, <1>3, <1>4, LinesMove

\* What is kept grows by the line that is dealt with, or not at all.
LEMMA KeptMoves ==
  ASSUME SessionInv, SessionNext, NEW kinds
  PROVE  /\ KeptOf(kinds) \in Seq(Lines) /\ KeptOf(kinds)' \in Seq(Lines)
         /\ Deals => KeptOf(kinds)' = IF queue[1].kind \in kinds THEN Append(KeptOf(kinds), queue[1]) ELSE KeptOf(kinds)
         /\ ~Deals => KeptOf(kinds)' = KeptOf(kinds)
<1>0. output \in Seq(Lines) /\ Dealt \in 0..Len(output) /\ Len(output) \in Nat
  BY SeqTypes
<1>1. /\ output' \in Seq(Lines) /\ Dealt' \in 0..Len(output')
      /\ \/ Deals /\ Dealt' = Dealt + 1 /\ output[Dealt + 1] = queue[1]
         \/ ~Deals /\ Dealt' = Dealt
  BY Dealing
<1>2. Kept(output', kinds)[Dealt] = Kept(output, kinds)[Dealt]
  <2>1. CASE output' = output  BY <2>1
  <2>2. CASE \E l \in Lines : output' = Append(output, l)  BY <1>0, <2>2, KeptGrows
  <2>. QED  BY <2>1, <2>2, LinesMove DEF Deals, Chains, Prints, Leaves
<1>3. KeptOf(kinds) \in Seq(Lines) /\ KeptOf(kinds)' \in Seq(Lines)
  BY <1>0, <1>1, KeptType DEF KeptOf
<1>4. CASE Deals
  <2>1. output' = output /\ Dealt' = Dealt + 1 /\ output[Dealt + 1] = queue[1]
    BY <1>1, <1>4 DEF Deals
  <2>2. Dealt \in 0..(Len(output) - 1)  BY <1>0, <1>1, <2>1
  <2>3. Kept(output, kinds)[Dealt + 1] =
          IF output[Dealt + 1].kind \in kinds THEN Append(Kept(output, kinds)[Dealt], output[Dealt + 1])
          ELSE Kept(output, kinds)[Dealt]
    BY <1>0, <2>2, KeptNext
  <2>. QED  BY <1>3, <1>4, <2>1, <2>3 DEF KeptOf
<1>5. CASE ~Deals
  BY <1>1, <1>2, <1>3, <1>5 DEF KeptOf
<1>. QED  BY <1>3, <1>4, <1>5

-----------------------------------------------------------------------------
(* What happens to a line.                                                 *)

Skipped == /\ Deals /\ queue[1].kind = "malformed" /\ (mode = "call" \/ "diagnostics" \in stopped)
           /\ failure' # "none" /\ UNCHANGED <<sending, stopped, session, events, anyError>>
Noting == /\ ~Deals /\ queue[1].kind = "malformed" /\ mode = "case"
          /\ sending' = [sending EXCEPT !["stdout"] = "diagnostic"]
          /\ failure' # "none" /\ UNCHANGED <<stopped, session, events, anyError>>
Refused == /\ Deals /\ queue[1].kind = "layout"
           /\ failure' # "none" /\ UNCHANGED <<sending, stopped, session, events, anyError>>
Ignored == /\ Deals /\ queue[1].kind = "additive"
           /\ UNCHANGED <<sending, stopped, session, events, anyError, failure>>
Meets == session' = IF session = "none" THEN queue[1].session ELSE session
Dropped == /\ Deals /\ queue[1].kind \in Consumed /\ Meets /\ "events" \in stopped
           /\ UNCHANGED <<sending, stopped, events, anyError, failure>>
Spoils == /\ Deals /\ queue[1].kind = "unredactable" /\ Meets /\ "events" \notin stopped
          /\ stopped' = stopped \cup {"events"} /\ failure' # "none" /\ UNCHANGED <<sending, events, anyError>>
Collected == /\ Deals /\ queue[1].kind \in {"part", "error"} /\ Meets /\ "events" \notin stopped /\ mode = "call"
             /\ events' = Append(events, queue[1]) /\ anyError' = (anyError \/ queue[1].kind = "error")
             /\ UNCHANGED <<sending, stopped, failure>>
Sending == /\ ~Deals /\ queue[1].kind \in {"part", "error"} /\ Meets /\ "events" \notin stopped /\ mode = "case"
           /\ sending' = [sending EXCEPT !["stdout"] = "event"]
           /\ UNCHANGED <<stopped, events, anyError, failure>>

LEMMA LineHandled ==
  ASSUME SessionInv, HandleLine
  PROVE  /\ queue # <<>> /\ queue[1] \in Lines /\ TypesOf(queue[1]) /\ sending["stdout"] = "nothing"
         /\ failure # "none" => failure' = failure
         /\ failure' \in {"none", "malformed", "layout", "redaction"}
         /\ stage # "exporting" /\ stage # "returned"
         /\ UNCHANGED <<mode, output, buffer, notes, process, noteQueue, diagnostics, rootError, appendFailed,
                        stage, result, exported, reported>>
         /\ \/ Skipped \/ Noting \/ Refused \/ Ignored \/ Dropped \/ Spoils \/ Collected \/ Sending
<1>1. /\ queue # <<>> /\ queue[1] \in Lines /\ Head(queue) = queue[1] /\ Tail(queue) # queue
      /\ sending["stdout"] = "nothing" /\ mode \in {"case", "call"}
  <2>1. queue \in Seq(Lines) /\ queue # <<>> /\ sending["stdout"] = "nothing"  BY SeqTypes DEF HandleLine
  <2>2. mode \in {"case", "call"}  BY SessionAssumption DEF SessionInv, SessionTypeOK
  <2>3. Len(Tail(queue)) = Len(queue) - 1 /\ Len(queue) \in Nat  BY <2>1, FirstInLine
  <2>4. Tail(queue) # queue
    <3>1. ASSUME Tail(queue) = queue  PROVE Len(Tail(queue)) = Len(queue)  BY <3>1
    <3>. QED  BY <2>3, <3>1
  <2>. QED  BY <2>1, <2>2, <2>4, FirstInLine
<1>2. TypesOf(queue[1])  BY <1>1, LineTypes
<1>3. /\ UNCHANGED <<mode, output, buffer, notes, process, noteQueue, diagnostics, rootError, appendFailed,
                     stage, result, exported, reported>>
      /\ SkipMalformed(queue[1]) \/ RefuseLayout(queue[1]) \/ IgnoreAdditive(queue[1]) \/ DeliverRecord(queue[1])
  BY <1>1 DEF HandleLine, outputVars, endVars
<1>4. stage # "exporting" /\ stage # "returned"
  BY <1>1 DEF SessionInv, ProcessFit, Decided, Delivered
<1>. USE DEF Deals, Fails, SessionInv, SessionTypeOK
<1>5. CASE SkipMalformed(queue[1])
  BY <1>1, <1>2, <1>3, <1>4, <1>5 DEF SkipMalformed, Sends, Skipped, Noting
<1>6. CASE RefuseLayout(queue[1])
  BY <1>1, <1>2, <1>3, <1>4, <1>6 DEF RefuseLayout, Refused
<1>7. CASE IgnoreAdditive(queue[1])
  BY <1>1, <1>2, <1>3, <1>4, <1>7 DEF IgnoreAdditive, Ignored
<1>8. CASE DeliverRecord(queue[1])
  <2>1. CASE "events" \in stopped
    BY <1>1, <1>2, <1>3, <1>4, <1>8, <2>1 DEF DeliverRecord, IdentifySession, Dropped, Meets
  <2>2. CASE "events" \notin stopped /\ queue[1].kind = "unredactable"
    BY <1>1, <1>2, <1>3, <1>4, <1>8, <2>2 DEF DeliverRecord, IdentifySession, Spoils, Meets
  <2>3. CASE "events" \notin stopped /\ queue[1].kind # "unredactable" /\ mode = "call"
    BY <1>1, <1>2, <1>3, <1>4, <1>8, <2>3 DEF DeliverRecord, IdentifySession, Collected, Meets, Consumed
  <2>4. CASE "events" \notin stopped /\ queue[1].kind # "unredactable" /\ mode = "case"
    BY <1>1, <1>2, <1>3, <1>4, <1>8, <2>4 DEF DeliverRecord, IdentifySession, Sending, Meets, Sends, Consumed
  <2>. QED  BY <1>1, <2>1, <2>2, <2>3, <2>4
<1>. QED  BY <1>3, <1>5, <1>6, <1>7, <1>8

\* A step that deals with a line does nothing else to the lines.
LEMMA OnlyDeals ==
  ASSUME SessionInv
  PROVE  Deals => ~Leaves /\ ~Chains /\ ~Prints
<1>1. SUFFICES ASSUME Deals PROVE ~Leaves /\ ~Chains /\ ~Prints  OBVIOUS
<1>2. queue # <<>> /\ queue' = Tail(queue) /\ output' = output /\ buffer' = buffer
      /\ queue \in Seq(Lines) /\ buffer \in Seq(Lines) /\ output \in Seq(Lines)
  BY <1>1, SeqTypes DEF Deals
<1>3. Len(queue') = Len(queue) - 1 /\ Len(queue) \in Nat /\ Len(buffer) \in Nat  BY <1>2, FirstInLine
<1>4. ~Leaves
  <2>1. ASSUME queue' = queue PROVE Len(queue') = Len(queue)  BY <2>1
  <2>. QED  BY <1>3, <2>1 DEF Leaves
<1>5. ~Chains
  <2>1. Len(queue \o buffer) = Len(queue) + Len(buffer)  BY <1>2
  <2>. QED  BY <1>3, <2>1 DEF Chains
<1>6. ~Prints
  <2>1. ASSUME queue' = queue PROVE Len(queue') = Len(queue)  BY <2>1
  <2>. QED  BY <1>3, <2>1 DEF Prints
<1>. QED  BY <1>4, <1>5, <1>6

\* Whether the records, and what they spoil, move is decided by the line alone.
LEMMA StoredMoves ==
  ASSUME SessionInv, SessionNext
  PROVE  /\ Stored \in Seq(Lines) /\ Stored' \in Seq(Lines)
         /\ Deals /\ queue[1].kind \in Consumed => Stored' = Append(Stored, queue[1]) /\ queue[1] \in Lines
         /\ ~Deals \/ queue[1].kind \notin Consumed => Stored' = Stored
BY KeptMoves, Dealing DEF Stored

\* The sequence that comes first still does when one more is there.
LEMMA PrefixAppended ==
  ASSUME NEW S, NEW s \in Seq(S), NEW t \in Seq(S), NEW x \in S
  PROVE  /\ IsPrefix(s, t) => IsPrefix(s, Append(t, x))
         /\ IsPrefix(t, t)
<1>1. Append(t, x) \in Seq(S) /\ Len(Append(t, x)) = Len(t) + 1 /\ \A i \in 1..Len(t) : Append(t, x)[i] = t[i]
  OBVIOUS
<1>2. Len(s) \in Nat /\ Len(t) \in Nat  OBVIOUS
<1>3. IsPrefix(t, t)  BY <1>2, PrefixIs
<1>4. ASSUME IsPrefix(s, t)  PROVE IsPrefix(s, Append(t, x))
  <2>1. Len(s) <= Len(t) /\ \A i \in 1..Len(s) : s[i] = t[i]  BY <1>4, PrefixIs
  <2>2. Len(s) <= Len(Append(t, x)) /\ \A i \in 1..Len(s) : s[i] = Append(t, x)[i]
    BY <1>1, <1>2, <2>1
  <2>. QED  BY <1>1, <2>2, PrefixIs
<1>. QED  BY <1>3, <1>4

LEMMA AppendedIs ==
  ASSUME NEW S, NEW t \in Seq(S), NEW x \in S
  PROVE  /\ Append(t, x) \in Seq(S) /\ Append(t, x) # <<>> /\ Len(Append(t, x)) = Len(t) + 1 /\ Len(t) \in Nat
         /\ DOMAIN t = 1..Len(t) /\ DOMAIN Append(t, x) = 1..(Len(t) + 1)
         /\ \A i \in 1..Len(t) : Append(t, x)[i] = t[i]
         /\ Append(t, x)[Len(t) + 1] = x
         /\ t # <<>> => Append(t, x)[1] = t[1]
         /\ t = <<>> => Append(t, x)[1] = x
OBVIOUS

\* What one more element says of all of them.
LEMMA AppendedAll ==
  ASSUME NEW S, NEW t \in Seq(S), NEW x \in S, NEW T
  PROVE  (\A i \in DOMAIN Append(t, x) : Append(t, x)[i].kind \in T)
           <=> x.kind \in T /\ \A i \in DOMAIN t : t[i].kind \in T
<1>1. /\ Len(t) \in Nat /\ DOMAIN t = 1..Len(t) /\ DOMAIN Append(t, x) = 1..(Len(t) + 1)
      /\ \A i \in 1..Len(t) : Append(t, x)[i] = t[i]
      /\ Append(t, x)[Len(t) + 1] = x
  BY AppendedIs
<1>2. 1..(Len(t) + 1) = 1..Len(t) \cup {Len(t) + 1}  BY <1>1
<1>. QED  BY <1>1, <1>2

LEMMA StoredKeeps ==
  ASSUME SessionInv, SessionNext
  PROVE  StoredFit'
<1>0. /\ Stored \in Seq(Lines) /\ Stored' \in Seq(Lines) /\ events \in Seq(Lines)
      /\ IsPrefix(events, Stored)
      /\ \A i \in DOMAIN events : events[i].kind # "unredactable"
      /\ "events" \notin stopped => events = Stored
      /\ "events" \in stopped /\ ~appendFailed => Spoiled
      /\ Spoiled => appendFailed \/ failure # "none"
      /\ sending["stdout"] = "event" => "events" \notin stopped
      /\ mode = "call" => ~appendFailed
      /\ sending \in [{"stdout", "stderr"} -> {"nothing", "event", "diagnostic"}]
  BY StoredMoves DEF SessionInv, SessionTypeOK, StoredFit
<1>1. /\ Spoiled' <=> Spoiled \/ (Deals /\ queue[1].kind = "unredactable")
      /\ IsPrefix(events, Stored')
  <2>1. CASE Deals /\ queue[1].kind \in Consumed
    <3>1. Stored' = Append(Stored, queue[1]) /\ queue[1] \in Lines  BY <2>1, StoredMoves
    <3>2. IsPrefix(events, Stored')  BY <1>0, <3>1, PrefixAppended
    <3>3. /\ Len(Stored) \in Nat /\ DOMAIN Stored = 1..Len(Stored) /\ DOMAIN Stored' = 1..(Len(Stored) + 1)
          /\ \A i \in 1..Len(Stored) : Stored'[i] = Stored[i]
          /\ Stored'[Len(Stored) + 1] = queue[1]
      BY <1>0, <3>1, AppendedIs
    <3>4. 1..(Len(Stored) + 1) = 1..Len(Stored) \cup {Len(Stored) + 1}  BY <3>3
    <3>5. Spoiled' <=> \E i \in DOMAIN Stored' : Stored'[i].kind = "unredactable"  BY DEF Spoiled
    <3>. HIDE DEF Stored
    <3>. QED  BY <2>1, <3>2, <3>3, <3>4, <3>5 DEF Spoiled
  <2>2. CASE ~(Deals /\ queue[1].kind \in Consumed)
    <3>1. Stored' = Stored  BY <2>2, StoredMoves
    <3>2. Spoiled' <=> \E i \in DOMAIN Stored' : Stored'[i].kind = "unredactable"  BY DEF Spoiled
    <3>. QED  BY <1>0, <2>2, <3>1, <3>2 DEF Spoiled, Consumed
  <2>. QED  BY <2>1, <2>2
<1>2. CASE HandleLine
  <2>0. /\ queue[1] \in Lines /\ sending["stdout"] = "nothing" /\ (failure # "none" => failure' = failure)
        /\ UNCHANGED <<mode, appendFailed>>
        /\ Skipped \/ Noting \/ Refused \/ Ignored \/ Dropped \/ Spoils \/ Collected \/ Sending
    BY <1>2, LineHandled
  <2>. HIDE DEF Stored, Spoiled
  <2>1. CASE Skipped \/ Noting \/ Refused \/ Ignored
    <3>1. Stored' = Stored  BY <2>1, StoredMoves DEF Skipped, Noting, Refused, Ignored, Consumed
    <3>2. events' = events /\ stopped' = stopped
      BY <2>1 DEF Skipped, Noting, Refused, Ignored
    <3>4. sending'["stdout"] # "event"
      <4>1. CASE Noting  BY <1>0, <4>1 DEF Noting
      <4>2. CASE sending' = sending  BY <2>0, <4>2
      <4>. QED  BY <2>1, <4>1, <4>2 DEF Skipped, Refused, Ignored
    <3>5. mode' = mode /\ appendFailed' = appendFailed /\ (failure # "none" => failure' # "none")  BY <2>0
    <3>3. ~(Deals /\ queue[1].kind = "unredactable")  BY <2>1 DEF Skipped, Noting, Refused, Ignored
    <3>. QED  BY <1>0, <1>1, <3>1, <3>2, <3>3, <3>4, <3>5 DEF StoredFit
  <2>2. CASE Dropped
    BY <1>0, <1>1, <2>0, <2>2 DEF Dropped, StoredFit
  <2>3. CASE Spoils
    <3>1. /\ UNCHANGED <<events, sending>> /\ "events" \in stopped' /\ failure' # "none"
          /\ Deals /\ queue[1].kind = "unredactable"
      BY <2>3 DEF Spoils
    <3>2. Spoiled'  BY <1>1, <3>1
    <3>3. events' = events /\ sending'["stdout"] = "nothing" /\ mode' = mode /\ appendFailed' = appendFailed
      BY <2>0, <3>1
    <3>4. IsPrefix(events', Stored') /\ \A i \in DOMAIN events' : events'[i].kind # "unredactable"
      BY <1>0, <1>1, <3>3
    <3>. QED  BY <1>0, <3>1, <3>2, <3>3, <3>4 DEF StoredFit
  <2>4. CASE Collected
    <3>1. Stored' = Append(Stored, queue[1]) /\ events' = Append(events, queue[1]) /\ events = Stored
      BY <1>0, <2>4, StoredMoves DEF Collected, Consumed
    <3>2. events' = Stored' /\ IsPrefix(events', Stored')
      <4>1. events' = Stored'  BY <3>1
      <4>. QED  BY <1>0, <2>0, <4>1, PrefixAppended
    <3>3. \A i \in DOMAIN events' : events'[i].kind # "unredactable"
      <4>1. /\ Len(events) \in Nat /\ DOMAIN events = 1..Len(events) /\ DOMAIN events' = 1..(Len(events) + 1)
            /\ \A i \in 1..Len(events) : events'[i] = events[i]
            /\ events'[Len(events) + 1] = queue[1]
        BY <1>0, <2>0, <3>1, AppendedIs
      <4>2. queue[1].kind # "unredactable"  BY <2>4 DEF Collected
      <4>3. 1..(Len(events) + 1) = 1..Len(events) \cup {Len(events) + 1}  BY <4>1
      <4>. QED  BY <1>0, <4>1, <4>2, <4>3
    <3>. QED  BY <1>0, <1>1, <2>0, <2>4, <3>2, <3>3 DEF Collected, StoredFit
  <2>5. CASE Sending
    <3>1. Stored' = Stored  BY <2>5, StoredMoves DEF Sending
    <3>. QED  BY <1>0, <1>1, <2>0, <2>5, <3>1 DEF Sending, StoredFit
  <2>. QED  BY <2>0, <2>1, <2>2, <2>3, <2>4, <2>5
<1>3. CASE EventAppended
  <2>1. /\ sending["stdout"] = "event" /\ Deals /\ queue[1].kind \in {"part", "error"} /\ mode = "case"
        /\ sending' = [sending EXCEPT !["stdout"] = "nothing"] /\ UNCHANGED <<mode, failure>>
        /\ Head(queue) = queue[1] /\ queue[1] \in Lines
    BY <1>3, FirstInLine, SeqTypes DEF EventAppended, SessionInv, SendingFit, Sends, Deals, outputVars
  <2>2. "events" \notin stopped /\ events = Stored /\ Stored' = Append(Stored, queue[1]) /\ mode' # "call"
    BY <1>0, <2>1, StoredMoves DEF Consumed
  <2>. HIDE DEF Stored, Spoiled
  <2>3. CASE events' = Append(events, queue[1]) /\ UNCHANGED <<stopped, appendFailed>>
    <3>1. events' = Stored'  BY <2>2, <2>3
    <3>2. IsPrefix(events', Stored')  BY <1>0, <2>1, <3>1, PrefixAppended
    <3>3. \A i \in DOMAIN events' : events'[i].kind # "unredactable"
      <4>1. /\ Len(events) \in Nat /\ DOMAIN events = 1..Len(events) /\ DOMAIN events' = 1..(Len(events) + 1)
            /\ \A i \in 1..Len(events) : events'[i] = events[i]
            /\ events'[Len(events) + 1] = queue[1]
        BY <1>0, <2>1, <2>3, AppendedIs
      <4>3. 1..(Len(events) + 1) = 1..Len(events) \cup {Len(events) + 1}  BY <4>1
      <4>. QED  BY <1>0, <2>1, <4>1, <4>3
    <3>. QED  BY <1>0, <1>1, <2>1, <2>2, <2>3, <3>1, <3>2, <3>3 DEF StoredFit
  <2>4. CASE stopped' = stopped \cup {"events"} /\ appendFailed' = TRUE /\ UNCHANGED events
    BY <1>0, <1>1, <2>1, <2>2, <2>4 DEF StoredFit
  <2>. QED  BY <1>3, <2>1, <2>3, <2>4 DEF EventAppended
<1>4. CASE \E c \in {"stdout", "stderr"} : DiagnosticAppended(c)
  <2>1. PICK c \in {"stdout", "stderr"} : DiagnosticAppended(c)  BY <1>4
  <2>2. /\ sending[c] = "diagnostic" /\ sending' = [sending EXCEPT ![c] = "nothing"]
        /\ UNCHANGED <<mode, events, failure>>
        /\ UNCHANGED <<stopped, appendFailed>> \/ (stopped' = stopped \cup {"diagnostics"} /\ appendFailed' = TRUE)
    BY <2>1 DEF DiagnosticAppended, Sends
  <2>3. mode = "case" /\ (c = "stdout" => queue[1].kind = "malformed")
    BY <1>0, <2>2 DEF SessionInv, SendingFit
  <2>4. Stored' = Stored /\ ~(Deals /\ queue[1].kind = "unredactable")
    <3>1. CASE c = "stdout"  BY <2>3, <3>1, StoredMoves DEF Consumed
    <3>2. CASE c = "stderr"
      <4>1. Leaves  BY <2>1, <3>2 DEF DiagnosticAppended, Leaves, outputVars
      <4>. QED  BY <4>1, OnlyDeals, StoredMoves
    <3>. QED  BY <3>1, <3>2
  <2>. HIDE DEF Stored, Spoiled
  <2>. QED  BY <1>0, <1>1, <2>2, <2>3, <2>4 DEF StoredFit
<1>5. CASE \/ (\E l \in Lines : PrintLine(l)) \/ EndLine \/ PrintNote \/ ProcessEnds \/ HandleNote \/ DecideCall
           \/ \E end \in Endings, document \in Documents : ExportSession(end, document) \/ ExportReply(end, document)
  <2>1. ~Deals
    <3>1. Leaves \/ Chains \/ Prints
      BY <1>5 DEF PrintLine, EndLine, PrintNote, ProcessEnds, HandleNote, DecideCall, ExportSession, ExportReply,
         outputVars, chainVars, Leaves, Chains, Prints
    <3>. QED  BY <3>1, OnlyDeals
  <2>2. UNCHANGED <<mode, events, stopped, appendFailed, failure>> /\ UNCHANGED sending["stdout"]
    BY <1>0, <1>5 DEF PrintLine, EndLine, PrintNote, ProcessEnds, HandleNote, DecideCall, ExportSession, ExportReply,
       chainVars, foundVars, Sends
  <2>3. Stored' = Stored  BY <2>1, StoredMoves
  <2>. HIDE DEF Stored, Spoiled
  <2>. QED  BY <1>0, <1>1, <2>1, <2>2, <2>3 DEF StoredFit
<1>6. CASE DecideCase
  <2>1. ~Deals
    <3>1. Leaves  BY <1>6 DEF DecideCase, outputVars, Leaves
    <3>. QED  BY <3>1, OnlyDeals
  <2>2. /\ UNCHANGED <<mode, events, failure, sending>> /\ mode = "case"
        /\ \/ UNCHANGED <<stopped, appendFailed>>
           \/ stopped' = {"diagnostics"} /\ appendFailed' = TRUE /\ ~Launched(process)
    BY <1>6 DEF DecideCase
  <2>3. Stored' = Stored  BY <2>1, StoredMoves
  <2>4. sending["stdout"] = "nothing"  BY <1>6 DEF DecideCase, Delivered
  <2>5. ~Launched(process) => events = Stored
    <3>1. SUFFICES ASSUME ~Launched(process) PROVE events = Stored  OBVIOUS
    <3>2. output = <<>>  BY <1>6, <3>1 DEF DecideCase, SessionInv, ProcessFit, Running
    <3>3. Dealt = 0  BY <3>2, SeqTypes
    <3>4. Stored = <<>>  BY <3>3, SeqTypes, KeptNext DEF Stored, KeptOf
    <3>5. IsPrefix(events, <<>>)  BY <1>0, <3>4
    <3>6. Len(events) <= 0  BY <3>5 DEF IsPrefix
    <3>7. events = <<>>  BY <1>0, <3>6
    <3>. QED  BY <3>4, <3>7
  <2>. HIDE DEF Stored, Spoiled
  <2>. QED  BY <1>0, <1>1, <2>1, <2>2, <2>3, <2>4, <2>5 DEF StoredFit
<1>. QED  BY <1>2, <1>3, <1>4, <1>5, <1>6 DEF SessionNext

-----------------------------------------------------------------------------
(* The rest of the invariant.                                              *)

LEMMA HeadIs == ASSUME SessionInv, queue # <<>>
                PROVE  Head(queue) = queue[1] /\ queue[1] \in Lines /\ TypesOf(queue[1])
BY SeqTypes, FirstInLine, LineTypes

\* The notes wait in their order.
LEMMA NotesMove ==
  ASSUME SessionInv, SessionNext
  PROVE  /\ noteQueue' \in Seq(1..MaxNotes) /\ notes' \in 0..MaxNotes /\ mode' = mode
         /\ Noted' \in 0..notes' /\ \A i \in 1..Len(noteQueue') : noteQueue'[i] = Noted' + i
         /\ mode = "call" => notes' = 0
         /\ \/ UNCHANGED <<noteQueue, notes>> /\ Noted' = Noted
            \/ PrintNote /\ Noted' = Noted
            \/ /\ noteQueue # <<>> /\ noteQueue' = Tail(noteQueue) /\ UNCHANGED notes
               /\ Noted' = Noted + 1 /\ Head(noteQueue) = Noted + 1
<1>0. /\ notes \in 0..MaxNotes /\ MaxNotes \in Nat /\ noteQueue \in Seq(1..MaxNotes) /\ Len(noteQueue) \in Nat
      /\ Noted = notes - Len(noteQueue) /\ Noted \in 0..notes
      /\ \A i \in 1..Len(noteQueue) : noteQueue[i] = Noted + i
      /\ mode = "call" => notes = 0
      /\ Noted' = notes' - Len(noteQueue')
  BY SeqTypes, SessionAssumption DEF SessionInv, SessionTypeOK, WaitingFit, Noted
<1>1. mode' = mode
  BY DEF SessionNext, PrintLine, EndLine, PrintNote, ProcessEnds, HandleLine, EventAppended, HandleNote,
     DiagnosticAppended, DecideCase, DecideCall, ExportSession, ExportReply
<1>. HIDE DEF Noted
<1>2. CASE UNCHANGED <<noteQueue, notes>>
  BY <1>0, <1>1, <1>2
<1>3. CASE PrintNote
  <2>1. notes' = notes + 1 /\ noteQueue' = Append(noteQueue, notes + 1) /\ notes + 1 \in 1..MaxNotes /\ mode # "call"
    BY <1>0, <1>3 DEF PrintNote
  <2>2. /\ noteQueue' \in Seq(1..MaxNotes) /\ Len(noteQueue') = Len(noteQueue) + 1
        /\ \A i \in 1..Len(noteQueue) : noteQueue'[i] = noteQueue[i]
        /\ noteQueue'[Len(noteQueue) + 1] = notes + 1
    BY <1>0, <2>1
  <2>3. Noted' = Noted /\ notes' \in 0..MaxNotes /\ Noted' \in 0..notes'  BY <1>0, <2>1, <2>2
  <2>4. ASSUME NEW i \in 1..Len(noteQueue')  PROVE noteQueue'[i] = Noted' + i
    <3>1. CASE i = Len(noteQueue) + 1  BY <1>0, <2>1, <2>2, <2>3, <3>1
    <3>2. CASE i # Len(noteQueue) + 1
      <4>1. i \in 1..Len(noteQueue)  BY <1>0, <2>2, <3>2
      <4>. QED  BY <1>0, <2>2, <2>3, <4>1
    <3>. QED  BY <3>1, <3>2
  <2>. QED  BY <1>1, <1>3, <2>1, <2>2, <2>3, <2>4
<1>4. CASE noteQueue # <<>> /\ noteQueue' = Tail(noteQueue) /\ UNCHANGED notes
  <2>1. /\ Head(noteQueue) = noteQueue[1] /\ Tail(noteQueue) \in Seq(1..MaxNotes)
        /\ Len(noteQueue') = Len(noteQueue) - 1 /\ Len(noteQueue) \in Nat \ {0}
        /\ \A i \in 1..Len(noteQueue') : noteQueue'[i] = noteQueue[i + 1]
    BY <1>0, <1>4, FirstInLine
  <2>2. Noted' = Noted + 1 /\ Head(noteQueue) = Noted + 1  BY <1>0, <1>4, <2>1
  <2>3. ASSUME NEW i \in 1..Len(noteQueue')  PROVE noteQueue'[i] = Noted' + i
    <3>1. i \in Int /\ i + 1 \in 1..Len(noteQueue) /\ Noted \in Int  BY <1>0, <2>1
    <3>2. noteQueue'[i] = Noted + (i + 1)  BY <1>0, <2>1, <3>1
    <3>. QED  BY <2>2, <3>1, <3>2
  <2>4. Noted' \in 0..notes'  BY <1>0, <1>4, <2>1
  <2>. QED  BY <1>0, <1>1, <1>4, <2>1, <2>2, <2>3, <2>4
<1>5. \/ UNCHANGED <<noteQueue, notes>> \/ PrintNote
      \/ noteQueue # <<>> /\ noteQueue' = Tail(noteQueue) /\ UNCHANGED notes
  <2>1. CASE \E c \in {"stdout", "stderr"} : DiagnosticAppended(c)
    BY <2>1 DEF DiagnosticAppended, outputVars, SessionInv, SendingFit
  <2>. QED  BY <2>1 DEF SessionNext, PrintLine, EndLine, ProcessEnds, HandleLine, EventAppended, HandleNote,
     DecideCase, DecideCall, ExportSession, ExportReply, outputVars, chainVars
<1>. QED  BY <1>2, <1>3, <1>4, <1>5

LEMMA WaitingKeeps ==
  ASSUME SessionInv, SessionNext
  PROVE  WaitingFit'
BY Dealing, NotesMove DEF WaitingFit

LEMMA ProcessKeeps ==
  ASSUME SessionInv, SessionNext
  PROVE  ProcessFit'
<1>0. /\ stage = "running" <=> process = Running
      /\ process # Running => buffer = <<>> /\ process \in Endings
      /\ Decided => Delivered
      /\ process # Running /\ ~Launched(process) => output = <<>> /\ notes = 0
      /\ Running \notin Endings
  BY DEF SessionInv, ProcessFit, Running, Endings
<1>1. CASE (\E l \in Lines : PrintLine(l)) \/ EndLine \/ PrintNote
  <2>1. process = Running /\ UNCHANGED <<process, stage>> /\ stage = "running"
    BY <1>0, <1>1 DEF PrintLine, EndLine, PrintNote, endVars
  <2>. QED  BY <1>0, <2>1 DEF ProcessFit, Decided
<1>2. CASE ProcessEnds
  <2>1. /\ process' \in Endings /\ stage' = "flushing" /\ buffer' = <<>> /\ UNCHANGED <<output, notes>>
        /\ ~Launched(process') => output = <<>> /\ notes = 0
    BY <1>2 DEF ProcessEnds
  <2>. QED  BY <1>0, <2>1 DEF ProcessFit, Decided
<1>3. CASE HandleLine \/ EventAppended \/ HandleNote \/ (\E c \in {"stdout", "stderr"} : DiagnosticAppended(c))
  <2>1. ~Delivered
    <3>1. ASSUME Delivered  PROVE queue = <<>> /\ noteQueue = <<>> /\ sending["stdout"] = "nothing" /\ sending["stderr"] = "nothing"
      BY <3>1 DEF Delivered
    <3>. QED  BY <1>3, <3>1 DEF HandleLine, EventAppended, HandleNote, DiagnosticAppended
  <2>2. UNCHANGED <<process, stage, output, notes, buffer>>
    BY <1>3 DEF HandleLine, EventAppended, HandleNote, DiagnosticAppended, outputVars, endVars
  <2>. QED  BY <1>0, <2>1, <2>2 DEF ProcessFit, Decided
<1>4. CASE \/ DecideCase \/ DecideCall
           \/ \E end \in Endings, document \in Documents : ExportSession(end, document) \/ ExportReply(end, document)
  <2>1. UNCHANGED <<process, output, notes, buffer, queue, noteQueue, sending>> /\ stage # "running" /\ stage' # "running"
    BY <1>4 DEF DecideCase, DecideCall, ExportSession, ExportReply, outputVars, chainVars
  <2>2. Delivered  BY <1>0, <1>4 DEF DecideCase, DecideCall, ExportSession, ExportReply, Decided
  <2>. QED  BY <1>0, <2>1, <2>2 DEF ProcessFit, Delivered
<1>. QED  BY <1>1, <1>2, <1>3, <1>4 DEF SessionNext

\* Unless it is dealt with, the first line stays the first.
LEMMA FirstStays ==
  ASSUME SessionInv, SessionNext, ~Deals, queue # <<>>
  PROVE  queue' # <<>> /\ queue'[1] = queue[1]
<1>0. queue \in Seq(Lines) /\ buffer \in Seq(Lines)  BY SeqTypes
<1>1. CASE queue' = queue  BY <1>1
<1>2. CASE queue' = queue \o buffer
  BY <1>0, <1>2
<1>. QED  BY <1>1, <1>2, LinesMove DEF Chains, Prints, Leaves

\* Who changes what is sent, and what an action is about to send.
LEMMA SendingKeeps ==
  ASSUME SessionInv, SessionNext
  PROVE  SendingFit'
<1>0. /\ sending \in [{"stdout", "stderr"} -> {"nothing", "event", "diagnostic"}]
      /\ queue \in Seq(Lines) /\ noteQueue \in Seq(1..MaxNotes) /\ mode \in {"case", "call"} /\ mode' = mode
  BY SeqTypes, SessionAssumption, NotesMove DEF SessionInv, SessionTypeOK
<1>1. /\ sending["stdout"] # "nothing" => queue # <<>> /\ mode = "case"
      /\ sending["stdout"] = "event" => queue[1].kind \in {"part", "error"}
      /\ sending["stdout"] = "diagnostic" => queue[1].kind = "malformed" /\ failure # "none"
      /\ sending["stderr"] # "nothing" => noteQueue # <<>> /\ mode = "case" /\ sending["stderr"] = "diagnostic"
  BY DEF SessionInv, SendingFit
<1>2. CASE HandleLine
  <2>0. /\ queue # <<>> /\ sending["stdout"] = "nothing" /\ UNCHANGED noteQueue
        /\ Skipped \/ Noting \/ Refused \/ Ignored \/ Dropped \/ Spoils \/ Collected \/ Sending
    BY <1>2, LineHandled
  <2>1. CASE Noting
    BY <1>0, <1>1, <2>0, <2>1, FirstStays DEF Noting, SendingFit
  <2>2. CASE Sending
    BY <1>0, <1>1, <2>0, <2>2, FirstStays DEF Sending, SendingFit
  <2>3. CASE UNCHANGED sending
    BY <1>0, <1>1, <2>0, <2>3 DEF SendingFit
  <2>. QED  BY <2>0, <2>1, <2>2, <2>3 DEF Skipped, Refused, Ignored, Dropped, Spoils, Collected
<1>3. CASE EventAppended
  BY <1>0, <1>1, <1>3 DEF EventAppended, Sends, SendingFit
<1>4. CASE \E c \in {"stdout", "stderr"} : DiagnosticAppended(c)
  <2>1. CASE DiagnosticAppended("stdout")
    <3>1. sending' = [sending EXCEPT !["stdout"] = "nothing"] /\ noteQueue' = noteQueue
      BY <2>1 DEF DiagnosticAppended, Sends
    <3>. QED  BY <1>0, <1>1, <3>1 DEF SendingFit
  <2>2. CASE DiagnosticAppended("stderr")
    <3>1. sending' = [sending EXCEPT !["stderr"] = "nothing"] /\ queue' = queue /\ failure' = failure
      BY <2>2 DEF DiagnosticAppended, Sends
    <3>. QED  BY <1>0, <1>1, <3>1 DEF SendingFit
  <2>. QED  BY <1>4, <2>1, <2>2
<1>5. CASE HandleNote
  <2>1. noteQueue # <<>> /\ sending["stderr"] = "nothing" /\ UNCHANGED <<queue, failure>>
    BY <1>5 DEF HandleNote, foundVars
  <2>2. mode = "case"
    <3>1. CASE mode = "call"
      <4>1. notes = 0 /\ Len(noteQueue) \in Nat /\ Noted \in 0..notes /\ Noted = notes - Len(noteQueue)
        BY <3>1, SeqTypes DEF SessionInv, WaitingFit
      <4>2. Len(noteQueue) = 0  BY <4>1
      <4>. QED  BY <1>0, <2>1, <4>2
    <3>. QED  BY <1>0, <3>1
  <2>3. CASE sending' = sending  BY <1>0, <1>1, <2>1, <2>3 DEF SendingFit
  <2>4. CASE sending' = [sending EXCEPT !["stderr"] = "diagnostic"] /\ noteQueue' = noteQueue
    BY <1>0, <1>1, <2>1, <2>2, <2>4 DEF SendingFit
  <2>. QED  BY <1>5, <2>3, <2>4 DEF HandleNote, Sends
<1>6. CASE \/ (\E l \in Lines : PrintLine(l)) \/ EndLine \/ PrintNote \/ ProcessEnds \/ DecideCase \/ DecideCall
           \/ \E end \in Endings, document \in Documents : ExportSession(end, document) \/ ExportReply(end, document)
  <2>1. ~Deals
    <3>1. Leaves \/ Chains \/ Prints
      BY <1>6 DEF PrintLine, EndLine, PrintNote, ProcessEnds, DecideCase, DecideCall, ExportSession, ExportReply,
         outputVars, chainVars, Leaves, Chains, Prints
    <3>. QED  BY <3>1, OnlyDeals
  <2>2. UNCHANGED <<sending, failure>>
    BY <1>6 DEF PrintLine, EndLine, PrintNote, ProcessEnds, DecideCase, DecideCall, ExportSession, ExportReply,
       chainVars, foundVars
  <2>3. noteQueue # <<>> => noteQueue' # <<>>
    <3>1. CASE noteQueue' = noteQueue  BY <3>1
    <3>2. CASE PrintNote  BY <1>0, <3>2 DEF PrintNote
    <3>. QED  BY <1>6, <3>1, <3>2 DEF PrintLine, EndLine, ProcessEnds, DecideCase, DecideCall, ExportSession, ExportReply, chainVars
  <2>4. queue # <<>> => queue' # <<>> /\ queue'[1] = queue[1]  BY <2>1, FirstStays
  <2>. QED  BY <1>0, <1>1, <2>2, <2>3, <2>4 DEF SendingFit
<1>. QED  BY <1>2, <1>3, <1>4, <1>5, <1>6 DEF SessionNext

\* What the invariant says of a state, in the types that the proofs below need.
LEMMA SessionKnown ==
  ASSUME SessionInv
  PROVE  /\ mode \in {"case", "call"} /\ sending \in [{"stdout", "stderr"} -> {"nothing", "event", "diagnostic"}]
         /\ diagnostics \in Seq(-1..MaxNotes) /\ events \in Seq(Lines) /\ Stored \in Seq(Lines)
         /\ KeptOf({"malformed"}) \in Seq(Lines)
         /\ stage \in {"running", "flushing", "exporting", "returned"}
         /\ reported \in Nat /\ session \in Sessions \cup {"none"}
         /\ failure \in {"none", "malformed", "layout", "redaction"}
<1>1. output \in Seq(Lines) /\ Dealt \in 0..Len(output)  BY SeqTypes
<1>2. Stored \in Seq(Lines) /\ KeptOf({"malformed"}) \in Seq(Lines)  BY <1>1, KeptType DEF Stored, KeptOf
<1>. QED  BY <1>2, SessionAssumption DEF SessionInv, SessionTypeOK

LEMMA FailureStays ==
  ASSUME SessionInv, SessionNext
  PROVE  (failure # "none" => failure' # "none") /\ (appendFailed => appendFailed')
<1>1. CASE HandleLine  BY <1>1, LineHandled
<1>2. CASE ~HandleLine
  <2>1. failure' = failure
    BY <1>2 DEF SessionNext, PrintLine, EndLine, PrintNote, ProcessEnds, EventAppended, HandleNote,
       DiagnosticAppended, DecideCase, DecideCall, ExportSession, ExportReply, foundVars
  <2>2. appendFailed' = appendFailed \/ appendFailed' = TRUE
    BY <1>2 DEF SessionNext, PrintLine, EndLine, PrintNote, ProcessEnds, EventAppended, HandleNote,
       DiagnosticAppended, DecideCase, DecideCall, ExportSession, ExportReply, foundVars
  <2>. QED  BY <2>1, <2>2
<1>. QED  BY <1>1, <1>2

\* One more diagnostic.
LEMMA DiagnosticsGrow ==
  ASSUME NEW S, NEW s \in Seq(S), NEW x \in S, NEW k \in Nat, Told(s, k)
  PROVE  /\ Told(Append(s, x), k)
         /\ x = k + 1 => Told(Append(s, x), k + 1)
<1>1. /\ Len(s) \in Nat /\ DOMAIN s = 1..Len(s) /\ DOMAIN Append(s, x) = 1..(Len(s) + 1)
      /\ \A i \in 1..Len(s) : Append(s, x)[i] = s[i]
      /\ Append(s, x)[Len(s) + 1] = x
  BY AppendedIs
<1>2. DOMAIN s \subseteq DOMAIN Append(s, x) /\ Len(s) + 1 \in DOMAIN Append(s, x)  BY <1>1
<1>3. ASSUME NEW n \in 1..k  PROVE \E i \in DOMAIN Append(s, x) : Append(s, x)[i] = n
  <2>1. PICK i \in DOMAIN s : s[i] = n  BY DEF Told
  <2>. QED  BY <1>1, <1>2, <2>1
<1>4. ASSUME x = k + 1, NEW n \in 1..(k + 1)  PROVE \E i \in DOMAIN Append(s, x) : Append(s, x)[i] = n
  <2>1. CASE n = k + 1  BY <1>1, <1>2, <1>4, <2>1
  <2>2. CASE n # k + 1
    <3>1. n \in 1..k  BY <1>4, <2>2
    <3>. QED  BY <1>3, <3>1
  <2>. QED  BY <2>1, <2>2
<1>. QED  BY <1>3, <1>4 DEF Told

LEMMA NotedKeeps ==
  ASSUME SessionInv, SessionNext
  PROVE  NotedFit'
<1>. DEFINE M == KeptOf({"malformed"})
<1>1. SUFFICES ASSUME mode = "case", ~appendFailed'
               PROVE  /\ "diagnostics" \notin stopped'
                      /\ Told(diagnostics', Noted')
                      /\ Len(diagnostics') = Noted' + Len(M') + (IF Decided' /\ ~Launched(process') THEN 1 ELSE 0)
  BY NotesMove DEF NotedFit
<1>2. /\ ~appendFailed /\ "diagnostics" \notin stopped /\ Told(diagnostics, Noted)
      /\ Len(diagnostics) = Noted + Len(M) + (IF Decided /\ ~Launched(process) THEN 1 ELSE 0)
  BY <1>1, FailureStays DEF SessionInv, NotedFit
<1>3. /\ M \in Seq(Lines) /\ M' \in Seq(Lines) /\ diagnostics \in Seq(-1..MaxNotes) /\ Noted \in Nat /\ Len(M) \in Nat
      /\ Deals => M' = IF queue[1].kind = "malformed" THEN Append(M, queue[1]) ELSE M
      /\ ~Deals => M' = M
      /\ Len(diagnostics) \in Nat
  <2>1. /\ M \in Seq(Lines) /\ M' \in Seq(Lines)
        /\ Deals => M' = IF queue[1].kind \in {"malformed"} THEN Append(M, queue[1]) ELSE M
        /\ ~Deals => M' = M
    BY KeptMoves
  <2>2. Noted \in Nat /\ diagnostics \in Seq(-1..MaxNotes)  BY SeqTypes, SessionKnown
  <2>. HIDE DEF M
  <2>. QED  BY <2>1, <2>2
<1>. HIDE DEF M
<1>4. CASE HandleLine
  <2>1. /\ queue # <<>> /\ UNCHANGED <<noteQueue, notes, diagnostics, stage, process>>
        /\ Skipped \/ Noting \/ Refused \/ Ignored \/ Dropped \/ Spoils \/ Collected \/ Sending
    BY <1>4, LineHandled
  <2>2. Noted' = Noted  BY <2>1 DEF Noted
  <2>3. ~Skipped  BY <1>1, <1>2 DEF Skipped
  <2>4. "diagnostics" \notin stopped'
    BY <1>2, <2>1, <2>3 DEF Noting, Refused, Ignored, Dropped, Spoils, Collected, Sending
  <2>5. ~Deals \/ queue[1].kind # "malformed"
    BY <2>1, <2>3 DEF Noting, Refused, Ignored, Dropped, Spoils, Collected, Sending, Consumed
  <2>6. M' = M  BY <1>3, <2>5
  <2>. QED  BY <1>2, <2>1, <2>2, <2>4, <2>6 DEF Decided
<1>5. CASE EventAppended
  <2>1. /\ sending["stdout"] = "event" /\ UNCHANGED <<noteQueue, notes, diagnostics, stage, process>>
        /\ "diagnostics" \notin stopped'
    BY <1>2, <1>5 DEF EventAppended, outputVars, endVars
  <2>2. queue[1].kind # "malformed"  BY <2>1 DEF SessionInv, SendingFit
  <2>3. Noted' = Noted /\ M' = M  BY <1>3, <2>1, <2>2 DEF Noted
  <2>. QED  BY <1>2, <2>1, <2>3 DEF Decided
<1>6. CASE DiagnosticAppended("stdout")
  <2>1. /\ sending["stdout"] = "diagnostic" /\ UNCHANGED <<noteQueue, notes, stage, process, stopped>>
        /\ diagnostics' = Append(diagnostics, -1) /\ queue' = Tail(queue) /\ UNCHANGED <<output, buffer>>
    BY <1>1, <1>6 DEF DiagnosticAppended, outputVars, endVars
  <2>2. queue[1].kind = "malformed" /\ queue # <<>>  BY <2>1 DEF SessionInv, SendingFit
  <2>3. Deals  BY <2>1, <2>2 DEF Deals
  <2>4. M' = Append(M, queue[1]) /\ queue[1] \in Lines  BY <1>3, <2>2, <2>3, HeadIs
  <2>5. Len(M') = Len(M) + 1  BY <1>3, <2>4
  <2>6. Noted' = Noted /\ -1 \in -1..MaxNotes  BY <2>1, SessionAssumption DEF Noted
  <2>7. Told(diagnostics', Noted')  BY <1>2, <1>3, <2>1, <2>6, DiagnosticsGrow
  <2>8. Len(diagnostics') = Len(diagnostics) + 1  BY <1>3, <2>1, <2>6
  <2>. QED  BY <1>2, <1>3, <2>1, <2>5, <2>6, <2>7, <2>8 DEF Decided
<1>7. CASE DiagnosticAppended("stderr")
  <2>1. /\ sending["stderr"] = "diagnostic" /\ UNCHANGED <<notes, stage, process, stopped, output, buffer, queue>>
        /\ diagnostics' = Append(diagnostics, Head(noteQueue)) /\ noteQueue' = Tail(noteQueue)
    BY <1>1, <1>7 DEF DiagnosticAppended, outputVars, endVars
  <2>2. noteQueue # <<>>  BY <2>1 DEF SessionInv, SendingFit
  <2>3. Noted' = Noted + 1 /\ Head(noteQueue) = Noted + 1
    <3>1. noteQueue' # noteQueue
      <4>1. Len(noteQueue') = Len(noteQueue) - 1 /\ Len(noteQueue) \in Nat  BY <2>1, <2>2, SeqTypes, FirstInLine
      <4>2. ASSUME noteQueue' = noteQueue PROVE Len(noteQueue') = Len(noteQueue)  BY <4>2
      <4>. QED  BY <4>1, <4>2
    <3>2. ~PrintNote
      <4>1. PrintNote => notes' = notes + 1  BY DEF PrintNote
      <4>. QED  BY <2>1, <4>1, SeqTypes
    <3>. QED  BY <3>1, <3>2, NotesMove
  <2>4. M' = M
    <3>1. Leaves  BY <2>1 DEF Leaves
    <3>. QED  BY <1>3, <3>1, OnlyDeals
  <2>5. Noted + 1 \in -1..MaxNotes
    <3>1. noteQueue[1] \in 1..MaxNotes /\ Head(noteQueue) = noteQueue[1]  BY <2>2, SeqTypes, FirstInLine
    <3>. QED  BY <2>3, <3>1, SessionAssumption
  <2>6. Told(diagnostics', Noted')  BY <1>2, <1>3, <2>1, <2>3, <2>5, DiagnosticsGrow
  <2>7. Len(diagnostics') = Len(diagnostics) + 1  BY <1>3, <2>1, <2>3, <2>5
  <2>. QED  BY <1>2, <1>3, <2>1, <2>3, <2>4, <2>6, <2>7 DEF Decided
<1>8. CASE HandleNote
  <2>1. UNCHANGED <<noteQueue, notes, stage, process, stopped, diagnostics, output, buffer, queue>>
    BY <1>2, <1>8 DEF HandleNote, outputVars, foundVars, endVars
  <2>2. Leaves /\ Noted' = Noted  BY <2>1 DEF Leaves, Noted
  <2>. QED  BY <1>2, <1>3, <2>1, <2>2, OnlyDeals DEF Decided
<1>9. CASE (\E l \in Lines : PrintLine(l)) \/ EndLine \/ PrintNote \/ ProcessEnds
  <2>1. /\ ~Decided /\ ~Decided' /\ UNCHANGED <<diagnostics, stopped>>
        /\ Leaves \/ Chains \/ Prints
    <3>1. process = Running  BY <1>9 DEF PrintLine, EndLine, PrintNote, ProcessEnds
    <3>2. stage = "running"  BY <3>1 DEF SessionInv, ProcessFit
    <3>. QED  BY <1>9, <3>2 DEF PrintLine, EndLine, PrintNote, ProcessEnds, Decided, foundVars, endVars,
                            Leaves, Chains, Prints
  <2>2. M' = M  BY <1>3, <2>1, OnlyDeals
  <2>3. Noted' = Noted
    <3>1. CASE PrintNote
      <4>1. notes' = notes + 1 /\ noteQueue' = Append(noteQueue, notes + 1)  BY <3>1 DEF PrintNote
      <4>2. Len(noteQueue') = Len(noteQueue) + 1  BY <4>1, SeqTypes
      <4>. QED  BY <4>1, <4>2, SeqTypes DEF Noted
    <3>2. CASE UNCHANGED <<notes, noteQueue>>  BY <3>2 DEF Noted
    <3>. QED  BY <1>9, <3>1, <3>2 DEF PrintLine, EndLine, ProcessEnds
  <2>. QED  BY <1>2, <2>1, <2>2, <2>3
<1>10. CASE DecideCase
  <2>1. /\ ~Decided /\ Decided' /\ UNCHANGED <<process, notes, noteQueue, output, queue, buffer>>
        /\ \/ (Launched(process) \/ "diagnostics" \in stopped) /\ UNCHANGED <<diagnostics, stopped>>
           \/ ~Launched(process) /\ diagnostics' = Append(diagnostics, 0) /\ UNCHANGED stopped
    BY <1>1, <1>10 DEF DecideCase, Decided, outputVars
  <2>2. Leaves /\ Noted' = Noted  BY <2>1 DEF Leaves, Noted
  <2>3. M' = M  BY <1>3, <2>2, OnlyDeals
  <2>4. CASE Launched(process) /\ UNCHANGED <<diagnostics, stopped>>
    BY <1>2, <2>1, <2>2, <2>3, <2>4
  <2>5. CASE ~Launched(process) /\ diagnostics' = Append(diagnostics, 0) /\ UNCHANGED stopped
    <3>1. 0 \in -1..MaxNotes  BY SessionAssumption
    <3>2. Told(diagnostics', Noted')  BY <1>2, <1>3, <2>2, <2>5, <3>1, DiagnosticsGrow
    <3>3. Len(diagnostics') = Len(diagnostics) + 1  BY <1>3, <2>5, <3>1
    <3>. QED  BY <1>2, <1>3, <2>1, <2>2, <2>3, <2>5, <3>2, <3>3
  <2>. QED  BY <1>2, <2>1, <2>4, <2>5
<1>11. CASE DecideCall  BY <1>1, <1>11 DEF DecideCall
<1>12. CASE \E end \in Endings, document \in Documents : ExportSession(end, document) \/ ExportReply(end, document)
  <2>1. /\ Decided /\ Decided'
        /\ UNCHANGED <<process, notes, noteQueue, output, queue, buffer, diagnostics, stopped>>
    BY <1>12 DEF ExportSession, ExportReply, Decided, outputVars, chainVars, foundVars
  <2>2. Leaves /\ Noted' = Noted  BY <2>1 DEF Leaves, Noted
  <2>3. M' = M  BY <1>3, <2>2, OnlyDeals
  <2>. QED  BY <1>2, <2>1, <2>2, <2>3
<1>. QED  BY <1>4, <1>5, <1>6, <1>7, <1>8, <1>9, <1>10, <1>11, <1>12 DEF SessionNext

\* The session is named by the first line that was met.
LEMMA SessionKeeps ==
  ASSUME SessionInv, SessionNext
  PROVE  SessionFits'
<1>0. /\ session = IF Met = <<>> THEN "none" ELSE Met[1].session
      /\ Met # <<>> => session # "none"
      /\ Stored \in Seq(Lines) /\ Stored' \in Seq(Lines)
      /\ sending \in [{"stdout", "stderr"} -> {"nothing", "event", "diagnostic"}]
      /\ Met = IF sending["stdout"] = "event" THEN Append(Stored, queue[1]) ELSE Stored
      /\ Met' = IF sending'["stdout"] = "event" THEN Append(Stored', queue'[1]) ELSE Stored'
  BY StoredMoves, SessionKnown DEF SessionInv, SessionFits, Met
<1>. HIDE DEF Met, Stored
<1>1. CASE HandleLine
  <2>0. /\ queue # <<>> /\ queue[1] \in Lines /\ TypesOf(queue[1]) /\ sending["stdout"] = "nothing"
        /\ Skipped \/ Noting \/ Refused \/ Ignored \/ Dropped \/ Spoils \/ Collected \/ Sending
    BY <1>1, LineHandled
  <2>1. CASE Skipped \/ Noting \/ Refused \/ Ignored
    <3>1. Stored' = Stored  BY <2>1, StoredMoves DEF Skipped, Noting, Refused, Ignored, Consumed
    <3>2. session' = session  BY <2>1 DEF Skipped, Noting, Refused, Ignored
    <3>3. sending'["stdout"] # "event"
      <4>1. CASE Noting  BY <1>0, <4>1 DEF Noting
      <4>2. CASE sending' = sending  BY <2>0, <4>2
      <4>. QED  BY <2>1, <4>1, <4>2 DEF Skipped, Refused, Ignored
    <3>. QED  BY <1>0, <2>0, <3>1, <3>2, <3>3 DEF SessionFits
  <2>2. CASE Dropped \/ Spoils \/ Collected \/ Sending
    <3>1. queue[1].kind \in Consumed /\ Meets
      BY <2>2 DEF Dropped, Spoils, Collected, Sending, Consumed
    <3>2. queue[1].session # "none"
      BY <2>0, <3>1, SessionAssumption DEF LineKinds, Consumed, Sessions
    <3>3. Met' = Append(Stored, queue[1])
      <4>1. CASE Sending
        <5>1. Stored' = Stored /\ sending'["stdout"] = "event"  BY <1>0, <4>1, StoredMoves DEF Sending
        <5>2. queue'[1] = queue[1]  BY <2>0, <4>1, FirstStays DEF Sending
        <5>. QED  BY <1>0, <5>1, <5>2
      <4>2. CASE Dropped \/ Spoils \/ Collected
        <5>1. Deals /\ sending' = sending  BY <4>2 DEF Dropped, Spoils, Collected
        <5>2. Stored' = Append(Stored, queue[1])  BY <3>1, <5>1, StoredMoves
        <5>. QED  BY <1>0, <2>0, <5>1, <5>2
      <4>. QED  BY <2>2, <4>1, <4>2
    <3>4. Met = Stored  BY <1>0, <2>0
    <3>5. /\ Met' # <<>>
          /\ Stored # <<>> => Met'[1] = Stored[1]
          /\ Stored = <<>> => Met'[1] = queue[1]
      BY <1>0, <2>0, <3>3, AppendedIs
    <3>6. session' = IF session = "none" THEN queue[1].session ELSE session  BY <3>1 DEF Meets
    <3>7. session' = Met'[1].session /\ session' # "none"
      <4>1. CASE Stored = <<>>  BY <1>0, <3>2, <3>4, <3>5, <3>6, <4>1
      <4>2. CASE Stored # <<>>  BY <1>0, <3>4, <3>5, <3>6, <4>2
      <4>. QED  BY <4>1, <4>2
    <3>8. session' = IF Met' = <<>> THEN "none" ELSE Met'[1].session  BY <3>5, <3>7
    <3>. QED  BY <3>7, <3>8 DEF SessionFits
  <2>. QED  BY <2>0, <2>1, <2>2
<1>2. CASE ~HandleLine
  <2>1. session' = session
    BY <1>2 DEF SessionNext, PrintLine, EndLine, PrintNote, ProcessEnds, EventAppended, HandleNote,
       DiagnosticAppended, DecideCase, DecideCall, ExportSession, ExportReply, foundVars
  <2>2. Met' = Met
    <3>1. CASE EventAppended
      <4>1. /\ sending["stdout"] = "event" /\ sending' = [sending EXCEPT !["stdout"] = "nothing"]
            /\ queue' = Tail(queue) /\ UNCHANGED <<output, buffer>>
        BY <3>1 DEF EventAppended, Sends, outputVars
      <4>2. queue # <<>> /\ queue[1].kind \in Consumed  BY <4>1 DEF SessionInv, SendingFit, Consumed
      <4>3. Stored' = Append(Stored, queue[1])  BY <4>1, <4>2, StoredMoves DEF Deals
      <4>. QED  BY <1>0, <4>1, <4>3
    <3>2. CASE DiagnosticAppended("stdout")
      <4>1. /\ sending["stdout"] = "diagnostic" /\ sending' = [sending EXCEPT !["stdout"] = "nothing"]
        BY <3>2 DEF DiagnosticAppended, Sends
      <4>2. queue[1].kind \notin Consumed  BY <4>1 DEF SessionInv, SendingFit, Consumed
      <4>3. Stored' = Stored  BY <4>2, StoredMoves
      <4>. QED  BY <1>0, <4>1, <4>3
    <3>3. CASE ~EventAppended /\ ~DiagnosticAppended("stdout")
      <4>1. sending'["stdout"] = sending["stdout"] /\ (Leaves \/ Chains \/ Prints)
        BY <1>0, <1>2, <3>3 DEF SessionNext, PrintLine, EndLine, PrintNote, ProcessEnds, HandleNote, Sends,
           DiagnosticAppended, DecideCase, DecideCall, ExportSession, ExportReply, outputVars, chainVars,
           Leaves, Chains, Prints
      <4>2. ~Deals  BY <4>1, OnlyDeals
      <4>3. Stored' = Stored  BY <4>2, StoredMoves
      <4>4. sending["stdout"] = "event" => queue'[1] = queue[1]
        <5>1. sending["stdout"] = "event" => queue # <<>>  BY DEF SessionInv, SendingFit
        <5>. QED  BY <4>2, <5>1, FirstStays
      <4>. QED  BY <1>0, <4>1, <4>3, <4>4
    <3>. QED  BY <3>1, <3>2, <3>3
  <2>. QED  BY <1>0, <2>1, <2>2 DEF SessionFits
<1>. QED  BY <1>1, <1>2

\* A defect of the lines is known as long as nothing is said to have failed.
Sound == \A i \in 1..Dealt : output[i].kind \notin {"malformed", "layout"}

LEMMA SoundMoves ==
  ASSUME SessionInv, SessionNext, Sound
  PROVE  ~Deals \/ queue[1].kind \notin {"malformed", "layout"} => Sound'
<1>1. SUFFICES ASSUME ~Deals \/ queue[1].kind \notin {"malformed", "layout"}, NEW i \in 1..Dealt'
               PROVE  output'[i].kind \notin {"malformed", "layout"}
  BY DEF Sound
<1>2. Dealt \in Nat /\ \A k \in 1..Dealt : output'[k] = output[k]  BY Dealing, SeqTypes
<1>3. CASE i \in 1..Dealt  BY <1>2, <1>3 DEF Sound
<1>4. CASE i \notin 1..Dealt
  <2>1. /\ Deals /\ Dealt' = Dealt + 1 /\ output[Dealt + 1] = queue[1]
    BY <1>2, <1>4, Dealing
  <2>2. i = Dealt + 1 /\ output' = output  BY <1>2, <1>4, <2>1 DEF Deals
  <2>. QED  BY <1>1, <2>1, <2>2
<1>. QED  BY <1>3, <1>4

\* An error among the records, or one of the exported session.
Errors == \E i \in DOMAIN Stored : Stored[i].kind = "error"
OwnErrors == \E i \in DOMAIN Stored : Stored[i].kind = "error" /\ Stored[i].session = session

LEMMA ErrorsMove ==
  ASSUME SessionInv, SessionNext
  PROVE  /\ Errors' => Errors \/ (Deals /\ queue[1].kind = "error")
         /\ OwnErrors' => OwnErrors \/ (Deals /\ queue[1].kind = "error" /\ queue[1].session = session')
<1>1. CASE Deals /\ queue[1].kind \in Consumed
  <2>1. Stored \in Seq(Lines) /\ Stored' = Append(Stored, queue[1]) /\ queue[1] \in Lines
    BY <1>1, StoredMoves
  <2>2. /\ Len(Stored) \in Nat /\ DOMAIN Stored = 1..Len(Stored) /\ DOMAIN Stored' = 1..(Len(Stored) + 1)
        /\ \A i \in 1..Len(Stored) : Stored'[i] = Stored[i]
        /\ Stored'[Len(Stored) + 1] = queue[1]
    BY <2>1, AppendedIs
  <2>3. 1..(Len(Stored) + 1) = 1..Len(Stored) \cup {Len(Stored) + 1}  BY <2>2
  <2>4. Stored # <<>> => session' = session
    <3>1. SUFFICES ASSUME Stored # <<>>  PROVE session' = session  OBVIOUS
    <3>2. session # "none"
      <4>1. Met # <<>>
        <5>1. CASE sending["stdout"] = "event"  BY <2>1, <5>1, AppendedIs DEF Met
        <5>2. CASE sending["stdout"] # "event"  BY <3>1, <5>2 DEF Met
        <5>. QED  BY <5>1, <5>2
      <4>. QED  BY <4>1 DEF SessionInv, SessionFits
    <3>3. CASE HandleLine
      <4>1. Skipped \/ Noting \/ Refused \/ Ignored \/ Dropped \/ Spoils \/ Collected \/ Sending  BY <3>3, LineHandled
      <4>. QED  BY <3>2, <4>1 DEF Skipped, Noting, Refused, Ignored, Dropped, Spoils, Collected, Sending, Meets
    <3>4. CASE ~HandleLine
      BY <3>4 DEF SessionNext, PrintLine, EndLine, PrintNote, ProcessEnds, EventAppended, HandleNote,
         DiagnosticAppended, DecideCase, DecideCall, ExportSession, ExportReply, foundVars
    <3>. QED  BY <3>3, <3>4
  <2>5. Errors' => \E i \in DOMAIN Stored' : Stored'[i].kind = "error"  BY DEF Errors
  <2>6. OwnErrors' => \E i \in DOMAIN Stored' : Stored'[i].kind = "error" /\ Stored'[i].session = session'
    BY DEF OwnErrors
  <2>. HIDE DEF Stored
  <2>7. Errors' => Errors \/ queue[1].kind = "error"  BY <2>2, <2>3, <2>5 DEF Errors
  <2>8. OwnErrors' => OwnErrors \/ (queue[1].kind = "error" /\ queue[1].session = session')
    <3>1. SUFFICES ASSUME OwnErrors', ~(queue[1].kind = "error" /\ queue[1].session = session')  PROVE OwnErrors
      OBVIOUS
    <3>2. PICK i \in DOMAIN Stored' : Stored'[i].kind = "error" /\ Stored'[i].session = session'  BY <2>6, <3>1
    <3>3. i \in 1..Len(Stored) /\ Stored'[i] = Stored[i]  BY <2>2, <2>3, <3>1, <3>2
    <3>4. Stored # <<>>  BY <2>1, <3>3
    <3>. QED  BY <2>2, <2>4, <3>2, <3>3, <3>4 DEF OwnErrors
  <2>. QED  BY <1>1, <2>7, <2>8
<1>2. CASE ~(Deals /\ queue[1].kind \in Consumed)
  <2>1. Stored' = Stored  BY <1>2, StoredMoves
  <2>2. OwnErrors' => OwnErrors
    <3>1. SUFFICES ASSUME OwnErrors'  PROVE OwnErrors  OBVIOUS
    <3>2. PICK i \in DOMAIN Stored : Stored[i].kind = "error" /\ Stored[i].session = session'
      BY <2>1, <3>1 DEF OwnErrors
    <3>3. session # "none" /\ Stored \in Seq(Lines)
      <4>1. Stored # <<>> /\ Stored \in Seq(Lines)  BY <3>2, StoredMoves
      <4>2. Met # <<>>
        <5>1. CASE sending["stdout"] = "event"
          <6>1. queue # <<>>  BY <5>1 DEF SessionInv, SendingFit
          <6>. QED  BY <4>1, <5>1, <6>1, HeadIs, AppendedIs DEF Met
        <5>2. CASE sending["stdout"] # "event"  BY <4>1, <5>2 DEF Met
        <5>. QED  BY <5>1, <5>2
      <4>. QED  BY <4>1, <4>2 DEF SessionInv, SessionFits
    <3>4. session' = session
      <4>1. CASE HandleLine
        <5>1. Skipped \/ Noting \/ Refused \/ Ignored \/ Dropped \/ Spoils \/ Collected \/ Sending  BY <4>1, LineHandled
        <5>. QED  BY <3>3, <5>1 DEF Skipped, Noting, Refused, Ignored, Dropped, Spoils, Collected, Sending, Meets
      <4>2. CASE ~HandleLine
        BY <4>2 DEF SessionNext, PrintLine, EndLine, PrintNote, ProcessEnds, EventAppended, HandleNote,
           DiagnosticAppended, DecideCase, DecideCall, ExportSession, ExportReply, foundVars
      <4>. QED  BY <4>1, <4>2
    <3>. QED  BY <3>2, <3>4 DEF OwnErrors
  <2>. QED  BY <2>1, <2>2 DEF Errors
<1>. QED  BY <1>1, <1>2

\* An error that was found stays found.
LEMMA ErrorsStay ==
  ASSUME SessionInv, SessionNext
  PROVE  (anyError => anyError') /\ (rootError => rootError')
<1>1. CASE HandleLine
  <2>1. rootError' = rootError /\ (Skipped \/ Noting \/ Refused \/ Ignored \/ Dropped \/ Spoils \/ Collected \/ Sending)
    BY <1>1, LineHandled
  <2>2. CASE Collected
    <3>1. anyError' = (anyError \/ queue[1].kind = "error")  BY <2>2, Zenon DEF Collected
    <3>. QED  BY <2>1, <3>1, Zenon
  <2>3. CASE ~Collected
    <3>1. anyError' = anyError
      BY <2>1, <2>3, Zenon DEF Skipped, Noting, Refused, Ignored, Dropped, Spoils, Sending
    <3>. QED  BY <2>1, <3>1, Zenon
  <2>. QED  BY <2>2, <2>3
<1>2. CASE EventAppended
  <2>1. anyError' = anyError  BY <1>2, Zenon DEF EventAppended
  <2>2. \/ rootError' = (rootError \/ (Head(queue).kind = "error" /\ Head(queue).session = session))
        \/ rootError' = rootError
    BY <1>2, Zenon DEF EventAppended
  <2>3. rootError => rootError'  BY <2>2, Zenon
  <2>. QED  BY <2>1, <2>3, Zenon
<1>3. CASE ~HandleLine /\ ~EventAppended
  <2>1. anyError' = anyError /\ rootError' = rootError
    BY <1>3, Zenon DEF SessionNext, PrintLine, EndLine, PrintNote, ProcessEnds, HandleNote,
       DiagnosticAppended, DecideCase, DecideCall, ExportSession, ExportReply, foundVars
  <2>. QED  BY <2>1, Zenon
<1>. QED  BY <1>1, <1>2, <1>3

\* What a line that is dealt with leaves known.
LEMMA DealsHow ==
  ASSUME SessionInv, SessionNext, Deals
  PROVE  /\ queue[1].kind \in {"malformed", "layout"} => failure' # "none"
         /\ queue[1].kind = "error" /\ mode = "call" => failure' # "none" \/ anyError'
         /\ queue[1].kind = "error" /\ mode = "case" /\ queue[1].session = session' =>
              failure' # "none" \/ appendFailed' \/ rootError'
<1>1. CASE HandleLine
  <2>1. /\ Skipped \/ Noting \/ Refused \/ Ignored \/ Dropped \/ Spoils \/ Collected \/ Sending
        /\ failure # "none" => failure' = failure
        /\ appendFailed' = appendFailed
    BY <1>1, LineHandled
  <2>2. CASE Skipped \/ Refused  BY <2>2 DEF Skipped, Refused
  <2>3. CASE Ignored  BY <2>3 DEF Ignored
  <2>4. CASE Dropped
    <3>1. failure # "none" \/ (appendFailed /\ mode # "call")
      BY <2>4 DEF Dropped, SessionInv, StoredFit
    <3>. QED  BY <2>1, <2>4, <3>1 DEF Dropped, Consumed
  <2>5. CASE Spoils  BY <2>5 DEF Spoils
  <2>6. CASE Collected
    <3>1. mode = "call" /\ queue[1].kind \in {"part", "error"}  BY <2>6 DEF Collected
    <3>2. anyError' = (anyError \/ queue[1].kind = "error")  BY <2>6, Zenon DEF Collected
    <3>3. queue[1].kind = "error" => anyError'  BY <3>2, Zenon
    <3>. QED  BY <3>1, <3>3
  <2>7. CASE Noting \/ Sending  BY <2>7 DEF Noting, Sending
  <2>. QED  BY <2>1, <2>2, <2>3, <2>4, <2>5, <2>6, <2>7
<1>2. CASE EventAppended
  <2>1. /\ queue # <<>> /\ queue[1].kind \in {"part", "error"} /\ mode = "case"
        /\ session' = session /\ Head(queue) = queue[1]
    BY <1>2, HeadIs DEF EventAppended, SessionInv, SendingFit
  <2>2. \/ rootError' = (rootError \/ (Head(queue).kind = "error" /\ Head(queue).session = session))
        \/ appendFailed' = TRUE
    BY <1>2, Zenon DEF EventAppended
  <2>3. queue[1].kind = "error" /\ queue[1].session = session => rootError' \/ appendFailed'
    <3>1. Head(queue).kind = "error" /\ Head(queue).session = session => rootError' \/ appendFailed'  BY <2>2, Zenon
    <3>. QED  BY <2>1, <3>1
  <2>. QED  BY <2>1, <2>3
<1>3. CASE DiagnosticAppended("stdout")
  <2>1. failure' = failure /\ sending["stdout"] = "diagnostic"  BY <1>3 DEF DiagnosticAppended
  <2>. QED  BY <2>1 DEF SessionInv, SendingFit
<1>4. CASE ~HandleLine /\ ~EventAppended /\ ~DiagnosticAppended("stdout")
  <2>1. Leaves \/ Chains \/ Prints
    BY <1>4 DEF SessionNext, PrintLine, EndLine, PrintNote, ProcessEnds, HandleNote,
       DiagnosticAppended, DecideCase, DecideCall, ExportSession, ExportReply, outputVars, chainVars,
       Leaves, Chains, Prints
  <2>. QED  BY <2>1, OnlyDeals
<1>. QED  BY <1>1, <1>2, <1>3, <1>4

LEMMA FailureKeeps ==
  ASSUME SessionInv, SessionNext
  PROVE  FailureFits'
<1>0. /\ failure = "none" => Sound
      /\ failure = "none" /\ mode = "call" => anyError \/ ~Errors
      /\ failure = "none" /\ mode = "case" => appendFailed \/ rootError \/ ~OwnErrors
  BY DEF SessionInv, FailureFits, Sound, Errors, OwnErrors
<1>1. /\ failure' = "none" => failure = "none"
      /\ appendFailed => appendFailed'
      /\ mode' = mode
  BY FailureStays, NotesMove
<1>2. failure' = "none" => Sound'
  <2>1. SUFFICES ASSUME failure' = "none"  PROVE Sound'  OBVIOUS
  <2>2. Sound  BY <1>0, <1>1, <2>1
  <2>3. ~Deals \/ queue[1].kind \notin {"malformed", "layout"}  BY <2>1, DealsHow
  <2>. QED  BY <2>2, <2>3, SoundMoves
<1>3. ASSUME failure' = "none", mode = "call", Errors'  PROVE anyError'
  <2>1. Errors \/ (Deals /\ queue[1].kind = "error")  BY <1>3, ErrorsMove
  <2>2. CASE Errors
    <3>1. anyError  BY <1>0, <1>1, <1>3, <2>2
    <3>. QED  BY <3>1, ErrorsStay
  <2>3. CASE Deals /\ queue[1].kind = "error"  BY <1>3, <2>3, DealsHow
  <2>. QED  BY <2>1, <2>2, <2>3
<1>4. ASSUME failure' = "none", mode = "case", OwnErrors'  PROVE appendFailed' \/ rootError'
  <2>1. OwnErrors \/ (Deals /\ queue[1].kind = "error" /\ queue[1].session = session')  BY <1>4, ErrorsMove
  <2>2. CASE OwnErrors
    <3>1. appendFailed \/ rootError  BY <1>0, <1>1, <1>4, <2>2
    <3>. QED  BY <1>1, <3>1, ErrorsStay
  <2>3. CASE Deals /\ queue[1].kind = "error" /\ queue[1].session = session'  BY <1>4, <2>3, DealsHow
  <2>. QED  BY <2>1, <2>2, <2>3
<1>5. failure' = "none" /\ mode' = "call" => anyError' \/ ~Errors'  BY <1>1, <1>3
<1>6. failure' = "none" /\ mode' = "case" => appendFailed' \/ rootError' \/ ~OwnErrors'  BY <1>1, <1>4
<1>7. FailureFits' <=>
        /\ failure' = "none" => Sound'
        /\ failure' = "none" /\ mode' = "call" => anyError' \/ ~Errors'
        /\ failure' = "none" /\ mode' = "case" => appendFailed' \/ rootError' \/ ~OwnErrors'
  BY DEF FailureFits, Sound, Errors, OwnErrors
<1>. QED  BY <1>2, <1>5, <1>6, <1>7

\* The result is read from what is settled, and stays.
LEMMA SettledKeeps ==
  ASSUME SessionInv, SessionNext
  PROVE  SettledFits'
<1>0. /\ mode = "case" /\ Decided => result = CaseResult
      /\ mode = "case" /\ stage = "exporting" => session # "none"
      /\ mode = "call" /\ stage = "exporting" => CallEnd = "none"
      /\ mode = "call" /\ stage = "returned" /\ result = "ok" => CallEnd = "none" /\ exported = "ok"
      /\ mode = "call" => reported = IF stage = "returned" /\ Launched(process) THEN 1 ELSE 0
      /\ stage = "running" <=> process = Running
      /\ Decided => Delivered
  BY DEF SessionInv, SettledFits, ProcessFit
<1>1. CASE /\ stage \in {"running", "flushing"} /\ stage' \in {"running", "flushing"}
           /\ UNCHANGED <<mode, reported>>
  BY <1>0, <1>1 DEF SettledFits, Decided
<1>2. CASE DecideCase
  <2>1. /\ mode = "case" /\ mode' = mode /\ result' = CaseResult /\ UNCHANGED <<process, session, failure, rootError>>
        /\ stage' = IF session = "none" THEN "returned" ELSE "exporting"
    BY <1>2 DEF DecideCase, outputVars
  <2>2. CaseResult' = CaseResult  BY <2>1 DEF CaseResult
  <2>. QED  BY <2>1, <2>2 DEF SettledFits
<1>3. CASE DecideCall
  <2>1. /\ mode = "call" /\ mode' = mode /\ UNCHANGED <<process, session, failure, anyError>>
        /\ \/ CallEnd = "none" /\ stage' = "exporting" /\ reported' = reported
           \/ /\ CallEnd # "none" /\ stage' = "returned" /\ result' = CallEnd
              /\ reported' = IF Launched(process) THEN reported + 1 ELSE reported
        /\ stage = "flushing"
    BY <1>3 DEF DecideCall, outputVars, chainVars, foundVars, ReportEvidence
  <2>2. CallEnd' = CallEnd  BY <2>1 DEF CallEnd
  <2>3. CallEnd # "ok"  BY DEF CallEnd, Settle
  <2>4. reported = 0 /\ process' = process  BY <1>0, <2>1
  <2>. QED  BY <2>1, <2>2, <2>3, <2>4 DEF SettledFits
<1>4. CASE \E end \in Endings, document \in Documents : ExportSession(end, document)
  <2>1. /\ mode = "case" /\ mode' = mode /\ stage = "exporting" /\ stage' = "returned"
        /\ UNCHANGED <<process, session, failure, rootError, result>>
    BY <1>4 DEF ExportSession, outputVars, chainVars, foundVars
  <2>2. CaseResult' = CaseResult  BY <2>1 DEF CaseResult
  <2>. QED  BY <1>0, <2>1, <2>2 DEF SettledFits, Decided
<1>5. CASE \E end \in Endings, document \in Documents : ExportReply(end, document)
  <2>1. PICK end \in Endings, document \in Documents : ExportReply(end, document)  BY <1>5
  <2>2. /\ mode = "call" /\ mode' = mode /\ stage = "exporting" /\ stage' = "returned"
        /\ UNCHANGED <<process, session, failure, anyError>>
        /\ reported' = IF Launched(process) THEN reported + 1 ELSE reported
        /\ result' = "ok" => exported' = "ok"
    BY <2>1 DEF ExportReply, outputVars, chainVars, foundVars, ReportEvidence
  <2>3. CallEnd' = CallEnd  BY <2>2 DEF CallEnd
  <2>4. CallEnd = "none" /\ reported = 0  BY <1>0, <2>2
  <2>. QED  BY <2>2, <2>3, <2>4 DEF SettledFits
<1>6. CASE ~DecideCase /\ ~DecideCall
           /\ ~\E end \in Endings, document \in Documents : ExportSession(end, document) \/ ExportReply(end, document)
  <2>1. CASE HandleLine  BY <1>1, <2>1, LineHandled, SessionKnown
  <2>2. CASE ProcessEnds \/ (\E l \in Lines : PrintLine(l)) \/ EndLine \/ PrintNote
    <3>1. stage = "running"  BY <1>0, <2>2 DEF PrintLine, EndLine, PrintNote, ProcessEnds
    <3>2. stage' \in {"running", "flushing"} /\ UNCHANGED <<mode, reported>>
      BY <2>2, <3>1 DEF PrintLine, EndLine, PrintNote, ProcessEnds, endVars
    <3>. QED  BY <1>1, <3>1, <3>2
  <2>3. CASE EventAppended \/ HandleNote \/ \E c \in {"stdout", "stderr"} : DiagnosticAppended(c)
    <3>1. UNCHANGED <<mode, reported, stage>>
      BY <2>3 DEF EventAppended, HandleNote, DiagnosticAppended, endVars
    <3>2. ~Delivered
      BY <2>3 DEF EventAppended, HandleNote, DiagnosticAppended, Delivered
    <3>3. stage \in {"running", "flushing"}  BY <1>0, <3>2, SessionKnown DEF Decided
    <3>. QED  BY <1>1, <3>1, <3>3
  <2>. QED  BY <1>6, <2>1, <2>2, <2>3 DEF SessionNext
<1>. QED  BY <1>2, <1>3, <1>4, <1>5, <1>6

LEMMA DiagnosticTyped ==
  ASSUME SessionInv, NEW x \in -1..MaxNotes
  PROVE  diagnostics \in Seq(-1..MaxNotes) /\ Append(diagnostics, x) \in Seq(-1..MaxNotes)
<1>1. diagnostics \in Seq(-1..MaxNotes)  BY SessionKnown
<1>. DEFINE S == -1..MaxNotes
<1>2. diagnostics \in Seq(S) /\ x \in S  BY <1>1
<1>. HIDE DEF S
<1>3. Append(diagnostics, x) \in Seq(S)  BY <1>2, AppendedIs
<1>. QED  BY <1>1, <1>3 DEF S

\* Every variable keeps its type.
LEMMA SessionTypesKeep ==
  ASSUME SessionInv, SessionNext
  PROVE  SessionTypeOK'
<1>0. /\ output' \in Seq(Lines) /\ buffer' \in Seq(Lines) /\ queue' \in Seq(Lines)
      /\ noteQueue' \in Seq(1..MaxNotes) /\ notes' \in 0..MaxNotes /\ mode' = mode
  BY Dealing, NotesMove
<1>1. CASE HandleLine
  <2>1. /\ queue # <<>> /\ queue[1] \in Lines /\ TypesOf(queue[1])
        /\ failure' \in {"none", "malformed", "layout", "redaction"}
        /\ UNCHANGED <<mode, notes, process, diagnostics, stage, result, exported, reported>>
        /\ Skipped \/ Noting \/ Refused \/ Ignored \/ Dropped \/ Spoils \/ Collected \/ Sending
    BY <1>1, LineHandled
  <2>2. session' \in Sessions \cup {"none"}
    <3>1. session \in Sessions \cup {"none"}  BY SessionKnown
    <3>. QED  BY <2>1, <3>1 DEF Skipped, Noting, Refused, Ignored, Dropped, Spoils, Collected, Sending, Meets, TypesOf
  <2>3. stopped' \subseteq {"events", "diagnostics"}
    <3>1. stopped \subseteq {"events", "diagnostics"}  BY DEF SessionInv, SessionTypeOK
    <3>. QED  BY <2>1, <3>1 DEF Skipped, Noting, Refused, Ignored, Dropped, Spoils, Collected, Sending
  <2>4. sending' \in [{"stdout", "stderr"} -> {"nothing", "event", "diagnostic"}]
    <3>1. sending \in [{"stdout", "stderr"} -> {"nothing", "event", "diagnostic"}]  BY SessionKnown
    <3>. QED  BY <2>1, <3>1 DEF Skipped, Noting, Refused, Ignored, Dropped, Spoils, Collected, Sending
  <2>5. events' \in Seq(Lines)
    <3>1. events \in Seq(Lines)  BY SessionKnown
    <3>. QED  BY <2>1, <3>1 DEF Skipped, Noting, Refused, Ignored, Dropped, Spoils, Collected, Sending
  <2>6. anyError' \in BOOLEAN /\ rootError' \in BOOLEAN /\ appendFailed' \in BOOLEAN
    <3>1. anyError \in BOOLEAN /\ rootError \in BOOLEAN /\ appendFailed \in BOOLEAN
      BY DEF SessionInv, SessionTypeOK
    <3>2. rootError' = rootError /\ appendFailed' = appendFailed  BY <1>1, LineHandled
    <3>3. CASE Collected
      <4>1. anyError' = (anyError \/ queue[1].kind = "error")  BY <3>3, Zenon DEF Collected
      <4>2. anyError' \in BOOLEAN  BY <4>1, Zenon
      <4>. QED  BY <3>1, <3>2, <4>2, Zenon
    <3>4. CASE ~Collected
      <4>1. anyError' = anyError  BY <2>1, <3>4, Zenon DEF Skipped, Noting, Refused, Ignored, Dropped, Spoils, Sending
      <4>. QED  BY <3>1, <3>2, <4>1, Zenon
    <3>. QED  BY <3>3, <3>4
  <2>. QED  BY <1>0, <2>1, <2>2, <2>3, <2>4, <2>5, <2>6 DEF SessionInv, SessionTypeOK
<1>2. CASE EventAppended
  <2>1. /\ UNCHANGED <<mode, diagnostics, session, failure, process, stage, result, exported, reported>>
        /\ sending' = [sending EXCEPT !["stdout"] = "nothing"] /\ sending["stdout"] = "event"
        /\ stopped' = stopped \/ stopped' = stopped \cup {"events"}
        /\ events' = events \/ events' = Append(events, Head(queue))
    BY <1>2 DEF EventAppended, Sends, outputVars, endVars
  <2>2. queue # <<>>  BY <2>1 DEF SessionInv, SendingFit
  <2>3. Head(queue) \in Lines /\ events \in Seq(Lines)  BY <2>2, HeadIs, SessionKnown
  <2>4. events' \in Seq(Lines)  BY <2>1, <2>3
  <2>5. sending' \in [{"stdout", "stderr"} -> {"nothing", "event", "diagnostic"}]  BY <2>1, SessionKnown
  <2>6. stopped' \subseteq {"events", "diagnostics"}  BY <2>1 DEF SessionInv, SessionTypeOK
  <2>7. anyError' \in BOOLEAN /\ rootError' \in BOOLEAN /\ appendFailed' \in BOOLEAN
    <3>1. anyError \in BOOLEAN /\ rootError \in BOOLEAN /\ appendFailed \in BOOLEAN
      BY DEF SessionInv, SessionTypeOK
    <3>2. anyError' = anyError  BY <1>2, Zenon DEF EventAppended
    <3>3. \/ rootError' = (rootError \/ (Head(queue).kind = "error" /\ Head(queue).session = session))
          \/ rootError' = rootError
      BY <1>2, Zenon DEF EventAppended
    <3>4. rootError' \in BOOLEAN  BY <3>1, <3>3, Zenon
    <3>5. appendFailed' = appendFailed \/ appendFailed' = TRUE  BY <1>2, Zenon DEF EventAppended
    <3>6. appendFailed' \in BOOLEAN  BY <3>1, <3>5, Zenon
    <3>. QED  BY <3>1, <3>2, <3>4, <3>6, Zenon
  <2>. QED  BY <1>0, <2>1, <2>4, <2>5, <2>6, <2>7 DEF SessionInv, SessionTypeOK
<1>3. CASE \E c \in {"stdout", "stderr"} : DiagnosticAppended(c)
  <2>1. PICK c \in {"stdout", "stderr"} : DiagnosticAppended(c)  BY <1>3
  <2>2. /\ UNCHANGED <<mode, events, session, failure, process, stage, result, exported, reported>>
        /\ sending' = [sending EXCEPT ![c] = "nothing"] /\ sending[c] = "diagnostic"
        /\ stopped' = stopped \/ stopped' = stopped \cup {"diagnostics"}
        /\ diagnostics' = diagnostics \/ diagnostics' = Append(diagnostics, IF c = "stdout" THEN -1 ELSE Head(noteQueue))
    BY <2>1 DEF DiagnosticAppended, Sends, outputVars, endVars
  <2>3. (IF c = "stdout" THEN -1 ELSE Head(noteQueue)) \in -1..MaxNotes
    <3>1. CASE c = "stdout"  BY <3>1, SessionAssumption
    <3>2. CASE c # "stdout"
      <4>1. noteQueue # <<>>  BY <2>2, <3>2 DEF SessionInv, SendingFit
      <4>2. Head(noteQueue) \in 1..MaxNotes  BY <4>1, SeqTypes, FirstInLine
      <4>. QED  BY <3>2, <4>2, SessionAssumption
    <3>. QED  BY <3>1, <3>2
  <2>4. diagnostics' \in Seq(-1..MaxNotes)
    <3>. DEFINE x == IF c = "stdout" THEN -1 ELSE Head(noteQueue)
    <3>1. x \in -1..MaxNotes /\ diagnostics \in Seq(-1..MaxNotes)  BY <2>3, SessionKnown
    <3>2. diagnostics' = diagnostics \/ diagnostics' = Append(diagnostics, x)  BY <2>2
    <3>. QED  BY <3>1, <3>2, DiagnosticTyped
  <2>5. sending' \in [{"stdout", "stderr"} -> {"nothing", "event", "diagnostic"}]  BY <2>2, SessionKnown
  <2>6. stopped' \subseteq {"events", "diagnostics"}  BY <2>2 DEF SessionInv, SessionTypeOK
  <2>7. anyError' \in BOOLEAN /\ rootError' \in BOOLEAN /\ appendFailed' \in BOOLEAN
    <3>1. anyError \in BOOLEAN /\ rootError \in BOOLEAN /\ appendFailed \in BOOLEAN
      BY DEF SessionInv, SessionTypeOK
    <3>2. anyError' = anyError /\ rootError' = rootError /\ (appendFailed' = appendFailed \/ appendFailed' = TRUE)
      BY <2>1, Zenon DEF DiagnosticAppended
    <3>. QED  BY <3>1, <3>2, Zenon
  <2>. QED  BY <1>0, <2>2, <2>4, <2>5, <2>6, <2>7 DEF SessionInv, SessionTypeOK
<1>4. CASE HandleNote
  <2>1. /\ UNCHANGED <<mode, stopped, events, diagnostics, session, failure, rootError, anyError, appendFailed,
                       process, stage, result, exported, reported>>
        /\ sending' = sending \/ sending' = [sending EXCEPT !["stderr"] = "diagnostic"]
    BY <1>4 DEF HandleNote, Sends, outputVars, foundVars, endVars
  <2>2. sending' \in [{"stdout", "stderr"} -> {"nothing", "event", "diagnostic"}]  BY <2>1, SessionKnown
  <2>. QED  BY <1>0, <2>1, <2>2 DEF SessionInv, SessionTypeOK
<1>5. CASE DecideCase
  <2>1. /\ UNCHANGED <<mode, sending, events, session, failure, rootError, anyError, process, exported, reported>>
        /\ stage' \in {"returned", "exporting"} /\ result' = CaseResult
        /\ stopped' = stopped \/ stopped' = {"diagnostics"}
        /\ diagnostics' = diagnostics \/ diagnostics' = Append(diagnostics, 0)
    BY <1>5 DEF DecideCase, outputVars
  <2>2. 0 \in -1..MaxNotes /\ diagnostics \in Seq(-1..MaxNotes)  BY SessionKnown, SessionAssumption
  <2>3. diagnostics' \in Seq(-1..MaxNotes)  BY <2>1, <2>2, DiagnosticTyped
  <2>4. result' \in Results  BY <2>1 DEF CaseResult, Results
  <2>5. appendFailed' \in BOOLEAN
    <3>1. appendFailed' = appendFailed \/ appendFailed' = TRUE  BY <1>5, Zenon DEF DecideCase
    <3>2. appendFailed \in BOOLEAN  BY DEF SessionInv, SessionTypeOK
    <3>. QED  BY <3>1, <3>2, Zenon
  <2>. QED  BY <1>0, <2>1, <2>3, <2>4, <2>5 DEF SessionInv, SessionTypeOK
<1>6. CASE DecideCall
  <2>1. /\ UNCHANGED <<mode, sending, stopped, events, diagnostics, session, failure, rootError, anyError, appendFailed,
                       process, exported>>
        /\ stage' \in {"returned", "exporting"} /\ (result' = result \/ result' = CallEnd)
        /\ reported' = reported \/ reported' = reported + 1
    BY <1>6 DEF DecideCall, outputVars, chainVars, foundVars, ReportEvidence
  <2>2. result' \in Results
    <3>1. CallEnd \in Results  BY DEF CallEnd, Settle, Results
    <3>. QED  BY <2>1, <3>1 DEF SessionInv, SessionTypeOK
  <2>3. reported' \in Nat  BY <2>1, SessionKnown
  <2>. QED  BY <1>0, <2>1, <2>2, <2>3 DEF SessionInv, SessionTypeOK
<1>7. CASE \E end \in Endings, document \in Documents : ExportSession(end, document) \/ ExportReply(end, document)
  <2>1. PICK end \in Endings, document \in Documents : ExportSession(end, document) \/ ExportReply(end, document)
    BY <1>7
  <2>2. /\ UNCHANGED <<mode, sending, stopped, events, diagnostics, session, failure, rootError, anyError, appendFailed,
                       process>>
        /\ stage' = "returned" /\ (reported' = reported \/ reported' = reported + 1)
    BY <2>1 DEF ExportSession, ExportReply, outputVars, chainVars, foundVars, ReportEvidence
  <2>3. result' \in Results /\ exported' \in Results
    <3>1. /\ document \notin Unread => ReplyResult(document) \in Results
          /\ Settle(end) \in Results \cup {"settled"}
      <4>1. document \notin Unread => ReplyResult(document) \in Results
        BY DEF ReplyResult, Results, Documents, Undecoded, Unreplied, Unread
      <4>2. Settle(end) \in Results \cup {"settled"}  BY DEF Settle, Results
      <4>. QED  BY <4>1, <4>2
    <3>2. result \in Results  BY DEF SessionInv, SessionTypeOK
    <3>3. CASE ExportSession(end, document)
      <4>1. result' = result /\ exported' \in {"protocol", "ok", "process"}  BY <3>3 DEF ExportSession
      <4>. QED  BY <3>2, <4>1 DEF Results
    <3>4. CASE ExportReply(end, document)
      <4>1. /\ \/ Read(end, document) /\ result' = ReplyResult(document)
               \/ Settle(end) # "settled" /\ result' = Settle(end)
               \/ result' \in {"failed", "protocol"}
            /\ exported' = "ok" \/ exported' = result'
        BY <3>4 DEF ExportReply
      <4>2. Read(end, document) => document \notin Unread  BY DEF Read
      <4>3. result' \in Results  BY <3>1, <4>1, <4>2 DEF Results
      <4>. QED  BY <4>1, <4>3 DEF Results
    <3>. QED  BY <2>1, <3>3, <3>4
  <2>4. reported' \in Nat  BY <2>2, SessionKnown
  <2>. QED  BY <1>0, <2>2, <2>3, <2>4 DEF SessionInv, SessionTypeOK
<1>8. CASE (\E l \in Lines : PrintLine(l)) \/ EndLine \/ PrintNote \/ ProcessEnds
  <2>1. /\ UNCHANGED <<mode, sending, stopped, events, diagnostics, session, failure, rootError, anyError, appendFailed,
                       result, exported, reported>>
        /\ process' = process \/ process' \in Endings
        /\ stage' = stage \/ stage' = "flushing"
    BY <1>8 DEF PrintLine, EndLine, PrintNote, ProcessEnds, foundVars, endVars
  <2>. QED  BY <1>0, <2>1 DEF SessionInv, SessionTypeOK
<1>. QED  BY <1>1, <1>2, <1>3, <1>4, <1>5, <1>6, <1>7, <1>8 DEF SessionNext

-----------------------------------------------------------------------------
(* The theorems.                                                           *)

LEMMA EmptyIsPrefix == \A s : s = <<>> => IsPrefix(s, s)
<1>1. ASSUME NEW s, s = <<>>  PROVE IsPrefix(s, s)
  <2>1. s \in Seq({0})  BY <1>1
  <2>2. Len(s) \in Nat /\ Len(s) <= Len(s) /\ \A i \in 1..Len(s) : s[i] = s[i]  BY <2>1
  <2>. QED  BY <2>1, <2>2, PrefixIs
<1>. QED  BY <1>1

LEMMA SessionStarts ==
  ASSUME SessionInit
  PROVE  SessionInv
<1>1. /\ mode \in Modes /\ output = <<>> /\ buffer = <<>> /\ queue = <<>> /\ notes = 0 /\ noteQueue = <<>>
      /\ sending = [c \in {"stdout", "stderr"} |-> "nothing"] /\ stopped = {}
      /\ events = <<>> /\ diagnostics = <<>> /\ session = "none" /\ failure = "none"
      /\ process = Running /\ stage = "running" /\ result = "none" /\ exported = "none" /\ reported = 0
  BY DEF SessionInit
<1>2. rootError = FALSE /\ anyError = FALSE /\ appendFailed = FALSE  BY DEF SessionInit
<1>3. SessionTypeOK
  <2>1. <<>> \in Seq(Lines) /\ <<>> \in Seq(1..MaxNotes) /\ <<>> \in Seq(-1..MaxNotes)  OBVIOUS
  <2>2. rootError \in BOOLEAN /\ anyError \in BOOLEAN /\ appendFailed \in BOOLEAN  BY <1>2, Zenon
  <2>3. 0 \in 0..MaxNotes  BY SessionAssumption
  <2>. QED  BY <1>1, <2>1, <2>2, <2>3 DEF SessionTypeOK, Results
<1>4. Dealt = 0 /\ Noted = 0
  <2>1. Len(output) = 0 /\ Len(buffer) = 0 /\ Len(queue) = 0 /\ Len(noteQueue) = 0  BY <1>1
  <2>2. notes = 0  BY <1>1
  <2>3. Dealt = 0  BY <2>1 DEF Dealt
  <2>4. Noted = 0  BY <2>1, <2>2 DEF Noted
  <2>. QED  BY <2>3, <2>4
<1>5. Stored = <<>> /\ KeptOf({"malformed"}) = <<>>
  <2>1. output \in Seq(Lines)  BY <1>3 DEF SessionTypeOK
  <2>. QED  BY <1>4, <2>1, KeptNext DEF Stored, KeptOf
<1>7. WaitingFit /\ SendingFit
  BY <1>1, <1>4 DEF WaitingFit, SendingFit
<1>8. ProcessFit  BY <1>1 DEF ProcessFit, Decided, Launched
<1>9. StoredFit
  <2>1. <<>> \in Seq(Lines)  OBVIOUS
  <2>2. IsPrefix(events, Stored)
    <3>1. events \in Seq(Lines) /\ IsPrefix(events, events)  BY <1>1, <2>1, EmptyIsPrefix
    <3>. QED  BY <1>1, <1>5, <3>1
  <2>3. ~Spoiled  BY <1>5 DEF Spoiled
  <2>. QED  BY <1>1, <1>2, <1>5, <2>2, <2>3 DEF StoredFit
<1>10. NotedFit  BY <1>1, <1>4, <1>5 DEF NotedFit, Told, Decided
<1>11. SessionFits
  <2>1. Met = <<>>  BY <1>1, <1>5 DEF Met
  <2>. QED  BY <1>1, <2>1 DEF SessionFits
<1>12. FailureFits  BY <1>4, <1>5 DEF FailureFits
<1>13. SettledFits  BY <1>1 DEF SettledFits, Decided
<1>. QED  BY <1>3, <1>7, <1>8, <1>9, <1>10, <1>11, <1>12, <1>13 DEF SessionInv

LEMMA SessionStutters ==
  ASSUME SessionInv, UNCHANGED sessionVars
  PROVE  SessionInv'
<1>1. UNCHANGED <<mode, output, buffer, queue, notes, noteQueue, sending, stopped, events, diagnostics, session,
                  failure, process, stage, result, exported, reported>>
  BY DEF sessionVars, outputVars, chainVars, foundVars, endVars
<1>2. rootError' = rootError /\ anyError' = anyError /\ appendFailed' = appendFailed
  BY Zenon DEF sessionVars, foundVars
<1>3. Dealt' = Dealt /\ Noted' = Noted  BY <1>1 DEF Dealt, Noted
<1>4. Stored' = Stored /\ KeptOf({"malformed"})' = KeptOf({"malformed"})  BY <1>1, <1>3 DEF Stored, KeptOf
<1>5. (Spoiled <=> Spoiled') /\ Met' = Met  BY <1>1, <1>4 DEF Spoiled, Met
<1>6. SessionTypeOK'
  <2>1. rootError' \in BOOLEAN /\ anyError' \in BOOLEAN /\ appendFailed' \in BOOLEAN
    BY <1>2, Zenon DEF SessionInv, SessionTypeOK
  <2>. QED  BY <1>1, <2>1 DEF SessionInv, SessionTypeOK
<1>7. WaitingFit'  BY <1>1, <1>3 DEF SessionInv, WaitingFit
<1>8. ProcessFit'  BY <1>1 DEF SessionInv, ProcessFit, Decided, Delivered
<1>9. SendingFit'  BY <1>1 DEF SessionInv, SendingFit
<1>10. StoredFit'
  <2>. HIDE DEF Stored, Spoiled
  <2>1. (appendFailed' <=> appendFailed)  BY <1>2, Zenon
  <2>. QED  BY <1>1, <1>4, <1>5, <2>1 DEF SessionInv, StoredFit
<1>11. NotedFit'
  <2>1. (appendFailed' <=> appendFailed)  BY <1>2, Zenon
  <2>. QED  BY <1>1, <1>3, <1>4, <2>1 DEF SessionInv, NotedFit, Told, Decided
<1>12. SessionFits'  BY <1>1, <1>5 DEF SessionInv, SessionFits
<1>13. FailureFits'
  <2>1. (appendFailed' <=> appendFailed) /\ (anyError' <=> anyError) /\ (rootError' <=> rootError)  BY <1>2, Zenon
  <2>. QED  BY <1>1, <1>3, <1>4, <2>1 DEF SessionInv, FailureFits
<1>14. SettledFits'
  <2>1. (rootError' <=> rootError) /\ (anyError' <=> anyError)  BY <1>2, Zenon
  <2>2. CaseResult' = CaseResult /\ CallEnd' = CallEnd  BY <1>1, <2>1 DEF CaseResult, CallEnd
  <2>. QED  BY <1>1, <2>2 DEF SessionInv, SettledFits, Decided
<1>. QED  BY <1>6, <1>7, <1>8, <1>9, <1>10, <1>11, <1>12, <1>13, <1>14 DEF SessionInv

LEMMA SessionHolds == SessionSpec => []SessionInv
<1>1. SessionInit => SessionInv  BY SessionStarts
<1>2. SessionInv /\ [SessionNext]_sessionVars => SessionInv'
  <2>1. SessionInv /\ SessionNext => SessionInv'
    BY SessionTypesKeep, WaitingKeeps, ProcessKeeps, SendingKeeps, StoredKeeps, NotedKeeps, SessionKeeps,
       FailureKeeps, SettledKeeps DEF SessionInv
  <2>. QED  BY <2>1, SessionStutters
<1>. QED  BY <1>1, <1>2, PTL DEF SessionSpec

\* Once the result is known every line was dealt with.
LEMMA AllDealt ==
  ASSUME SessionInv, Decided
  PROVE  /\ Dealt = Len(output) /\ Noted = notes /\ Stored = Records /\ Met = Stored
         /\ KeptOf({"malformed"}) = Kept(output, {"malformed"})[Len(output)]
<1>1. Delivered /\ buffer = <<>> /\ process # Running
  BY DEF SessionInv, ProcessFit, Decided
<1>2. queue = <<>> /\ noteQueue = <<>> /\ sending["stdout"] = "nothing"  BY <1>1 DEF Delivered
<1>3. Len(queue) = 0 /\ Len(buffer) = 0 /\ Len(noteQueue) = 0  BY <1>1, <1>2
<1>4. Dealt = Len(output) /\ Noted = notes  BY <1>3, SeqTypes
<1>. QED  BY <1>2, <1>4 DEF Stored, KeptOf, Records, Met

LEMMA EvidenceThen ==
  ASSUME SessionInv
  PROVE  EvidenceIsOutput
<1>1. output \in Seq(Lines) /\ Dealt \in 0..Len(output) /\ Len(output) \in Nat  BY SeqTypes
<1>2. Stored \in Seq(Lines) /\ Records \in Seq(Lines) /\ events \in Seq(Lines)
  BY <1>1, KeptType, SessionKnown DEF Records
<1>3. IsPrefix(Stored, Records)  BY <1>1, KeptIsPrefix DEF Stored, KeptOf, Records
<1>4. IsPrefix(events, Stored) /\ \A i \in DOMAIN events : events[i].kind # "unredactable"
  BY DEF SessionInv, StoredFit
<1>5. IsPrefix(events, Records)
  <2>. HIDE DEF Stored, Records
  <2>1. Len(events) <= Len(Stored) /\ \A i \in 1..Len(events) : events[i] = Stored[i]  BY <1>2, <1>4, PrefixIs
  <2>2. Len(Stored) <= Len(Records) /\ \A i \in 1..Len(Stored) : Stored[i] = Records[i]  BY <1>2, <1>3, PrefixIs
  <2>3. Len(events) \in Nat /\ Len(Stored) \in Nat /\ Len(Records) \in Nat  BY <1>2
  <2>4. Len(events) <= Len(Records) /\ \A i \in 1..Len(events) : events[i] = Records[i]  BY <2>1, <2>2, <2>3
  <2>. QED  BY <1>2, <2>4, PrefixIs
<1>6. ASSUME Decided, ~appendFailed, ~Withheld  PROVE events = Records
  <2>1. Stored = Records  BY <1>6, AllDealt
  <2>2. ~Spoiled  BY <1>6, <2>1 DEF Spoiled, Withheld
  <2>. QED  BY <1>6, <2>1, <2>2 DEF SessionInv, StoredFit
<1>7. ASSUME Decided, ~appendFailed, mode = "case"
      PROVE  /\ \A n \in 1..notes : \E i \in DOMAIN diagnostics : diagnostics[i] = n
             /\ Len(diagnostics) = notes + (IF Launched(process) THEN 0 ELSE 1)
                                  + Len(Kept(output, {"malformed"})[Len(output)])
  <2>1. /\ Told(diagnostics, Noted)
        /\ Len(diagnostics) = Noted + Len(KeptOf({"malformed"})) + (IF Launched(process) THEN 0 ELSE 1)
    BY <1>7 DEF SessionInv, NotedFit
  <2>2. Noted = notes /\ KeptOf({"malformed"}) = Kept(output, {"malformed"})[Len(output)]
    BY <1>7, AllDealt
  <2>3. KeptOf({"malformed"}) \in Seq(Lines) /\ notes \in Nat  BY SessionKnown, SeqTypes
  <2>. DEFINE k == Len(KeptOf({"malformed"}))
  <2>4. k \in Nat  BY <2>3
  <2>5. k = Len(Kept(output, {"malformed"})[Len(output)])  BY <2>2
  <2>6. Len(diagnostics) = notes + k + (IF Launched(process) THEN 0 ELSE 1)  BY <2>1, <2>2
  <2>. HIDE DEF k
  <2>7. Len(diagnostics) = notes + (IF Launched(process) THEN 0 ELSE 1) + k  BY <2>3, <2>4, <2>6
  <2>8. \A n \in 1..notes : \E i \in DOMAIN diagnostics : diagnostics[i] = n  BY <2>1, <2>2 DEF Told
  <2>. QED  BY <2>5, <2>7, <2>8
<1>. QED  BY <1>4, <1>5, <1>6, <1>7 DEF EvidenceIsOutput

LEMMA OutcomeThen ==
  ASSUME SessionInv
  PROVE  OutcomeIsHonest
<1>1. SUFFICES ASSUME Decided  PROVE OutcomeIsHonest  BY DEF OutcomeIsHonest
<1>2. /\ Dealt = Len(output) /\ Stored = Records /\ Met = Stored /\ process # Running /\ process \in Endings
      /\ mode \in {"case", "call"} /\ stage \in {"exporting", "returned"}
      /\ output \in Seq(Lines) /\ Records \in Seq(Lines)
  <2>1. Dealt = Len(output) /\ Stored = Records /\ Met = Stored  BY <1>1, AllDealt
  <2>2. process # Running /\ process \in Endings  BY <1>1 DEF SessionInv, ProcessFit, Decided
  <2>. QED  BY <1>1, <2>1, <2>2, SessionKnown, SeqTypes DEF Decided
<1>3. session = IF Records = <<>> THEN "none" ELSE Records[1].session
  BY <1>2 DEF SessionInv, SessionFits
<1>4. ASSUME result = "ok" \/ (mode = "call" /\ stage = "exporting")
      PROVE  /\ process = [how |-> "exited", code |-> "0"] /\ failure = "none"
             /\ mode = "call" => ~anyError
             /\ mode = "case" => ~rootError
  <2>1. CASE mode = "case"
    <3>1. CaseResult = "ok"  BY <1>1, <1>4, <2>1 DEF SessionInv, SettledFits
    <3>2. process.how = "exited" /\ failure = "none" /\ process.code = "0" /\ ~rootError
      BY <1>2, <3>1 DEF CaseResult, Endings, Launched
    <3>3. process = [how |-> "exited", code |-> "0"]  BY <1>2, <3>2 DEF Endings
    <3>. QED  BY <2>1, <3>2, <3>3
  <2>2. CASE mode = "call"
    <3>1. CallEnd = "none"  BY <1>2, <1>4, <2>2 DEF SessionInv, SettledFits
    <3>2. process.how = "exited" /\ failure = "none" /\ process.code = "0" /\ ~anyError
      BY <1>2, <3>1 DEF CallEnd, Settle, Endings
    <3>3. process = [how |-> "exited", code |-> "0"]  BY <1>2, <3>2 DEF Endings
    <3>. QED  BY <2>2, <3>2, <3>3
  <2>. QED  BY <1>2, <2>1, <2>2
<1>5. ASSUME result = "ok" \/ (mode = "call" /\ stage = "exporting")
      PROVE  /\ process = [how |-> "exited", code |-> "0"]
             /\ \A i \in DOMAIN output : output[i].kind \notin {"malformed", "layout"}
             /\ ~appendFailed => ~Withheld
             /\ ~appendFailed =>
                  \A i \in DOMAIN Records : Records[i].kind = "error" => mode = "case" /\ Records[i].session # session
  <2>1. DOMAIN output = 1..Dealt  BY <1>2
  <2>2. \A i \in DOMAIN output : output[i].kind \notin {"malformed", "layout"}
    BY <1>4, <1>5, <2>1 DEF SessionInv, FailureFits
  <2>3. ~appendFailed => ~Withheld
    BY <1>2, <1>4, <1>5 DEF SessionInv, StoredFit, Spoiled, Withheld
  <2>4. CASE mode = "call"
    <3>1. \A i \in DOMAIN Stored : Stored[i].kind # "error"
      BY <1>4, <1>5, <2>4 DEF SessionInv, FailureFits
    <3>. QED  BY <1>2, <1>4, <1>5, <2>2, <2>3, <3>1
  <2>5. CASE mode = "case"
    <3>1. ~appendFailed => \A i \in DOMAIN Stored : Stored[i].kind = "error" => Stored[i].session # session
      BY <1>4, <1>5, <2>5 DEF SessionInv, FailureFits
    <3>. QED  BY <1>2, <1>4, <1>5, <2>2, <2>3, <2>5, <3>1
  <2>. QED  BY <1>2, <2>4, <2>5
<1>6. ASSUME mode = "call", stage = "returned"
      PROVE  reported = (IF Launched(process) THEN 1 ELSE 0) /\ (result = "ok" => exported = "ok")
  BY <1>6 DEF SessionInv, SettledFits
<1>. QED  BY <1>3, <1>5, <1>6 DEF OutcomeIsHonest

\* Every variable of the session keeps its type.
THEOREM SessionTypeCorrect == SessionSpec => []SessionTypeOK
<1>1. SessionInv => SessionTypeOK  BY DEF SessionInv
<1>. QED  BY <1>1, SessionHolds, PTL

\* Whatever order the two chains run in and whichever append fails, the stored
\* evidence is the output up to what could not be stored.
THEOREM EvidenceIsTheOutput == SessionSpec => []EvidenceIsOutput
<1>1. SessionInv => EvidenceIsOutput  BY EvidenceThen
<1>. QED  BY <1>1, SessionHolds, PTL

\* No result says more than the output, the process and the export bear out.
THEOREM SessionOutcomeIsHonest == SessionSpec => []OutcomeIsHonest
<1>1. SessionInv => OutcomeIsHonest  BY OutcomeThen
<1>. QED  BY <1>1, SessionHolds, PTL

-----------------------------------------------------------------------------
(***************************************************************************)
(* What the calls of a model promise, for any number of attempts: each     *)
(* directory is used by one call and reported once (CallsAccounted).       *)
(***************************************************************************)

\* The types with those of the sequences.
CallsTypes ==
  /\ CallsTypeOK /\ made \in Nat
  /\ retained \in Seq(Nat) /\ called \in Seq(Nat) /\ records \in Seq(Outcomes \cup {"template"})

\* A directory in use is the last one made, is there, and nobody reported it yet.
InUse == step \in {"made", "repository", "calling", "removing"}
DirsFit ==
  /\ IF InUse
     THEN /\ made \in callDirs \ partial /\ made \notin Range(retained)
          /\ callDirs \ partial = Range(retained) \cup {made}
     ELSE callDirs \ partial = Range(retained)
  /\ IsInjective(retained)

\* A model is called once in a directory, and once for each record.
CalledFits ==
  /\ Range(called) \subseteq shown /\ IsInjective(called)
  /\ step \in {"made", "repository"} => made \notin Range(called)
  /\ purpose # "call" => called = <<>>
  /\ step # "done" =>
       Len(called) <= Len(records) + (IF step \in {"calling", "removing", "settled"} THEN 1 ELSE 0)

\* What each caller has come to.
CallerFits ==
  /\ status = "none" <=> step # "done"
  /\ job \in {"grade", "conclude"} => purpose = "call"
  /\ job = "validate" => purpose # "call"
  /\ step = "calling" => purpose = "call"
  /\ job = "grade" /\ step # "done" =>
       Len(records) < GraderCallLimit /\ \A i \in DOMAIN records : records[i] = "unfinished"
  /\ job = "conclude" /\ step # "done" => Len(records) < NumTasks
  /\ job = "draft" => records = <<>>

\* What was cancelled was interrupted, and a denial was shown in some directory.
OutcomeFits ==
  /\ outcome = "cancelled" => aborted
  /\ outcome = "denied" => shown # {}

CallsInv == CallsTypes /\ DirsFit /\ CalledFits /\ CallerFits /\ OutcomeFits /\ CallsAccounted

-----------------------------------------------------------------------------
\* A sequence with one more element.
LEMMA Appended ==
  ASSUME NEW S, NEW s \in Seq(S), NEW x \in S
  PROVE  /\ Append(s, x) \in Seq(S) /\ Len(Append(s, x)) = Len(s) + 1 /\ Len(s) \in Nat
         /\ \A i \in 1..Len(s) : Append(s, x)[i] = s[i]
         /\ Append(s, x)[Len(s) + 1] = x
         /\ Range(Append(s, x)) = Range(s) \cup {x}
         /\ IsInjective(s) /\ x \notin Range(s) => IsInjective(Append(s, x))
<1>1. /\ Append(s, x) \in Seq(S) /\ Len(Append(s, x)) = Len(s) + 1 /\ Len(s) \in Nat
      /\ \A i \in 1..Len(s) : Append(s, x)[i] = s[i]
      /\ Append(s, x)[Len(s) + 1] = x
      /\ DOMAIN s = 1..Len(s) /\ DOMAIN Append(s, x) = 1..(Len(s) + 1)
  OBVIOUS
<1>2. DOMAIN Append(s, x) = DOMAIN s \cup {Len(s) + 1}  BY <1>1
<1>3. Range(Append(s, x)) = Range(s) \cup {x}  BY <1>1, <1>2 DEF Range
<1>4. IsInjective(s) /\ x \notin Range(s) => IsInjective(Append(s, x))
  BY <1>1, <1>2 DEF Range, IsInjective
<1>. QED  BY <1>1, <1>3, <1>4

\* An empty sequence has nothing twice.
LEMMA EmptyIs == Range(<<>>) = {} /\ IsInjective(<<>>) /\ Len(<<>>) = 0
BY DEF Range, IsInjective

LEMMA DirsKeep ==
  ASSUME CallsInv, CallsNext
  PROVE  DirsFit'
<1>1. CASE CreateModelCallEnvironment
  BY <1>1 DEF CallsInv, CallsTypes, CallsTypeOK, DirsFit, InUse, CreateModelCallEnvironment, SettleUse, callDiskVars
<1>2. CASE RemovalOf
  <2>1. /\ made \in callDirs \ partial /\ made \notin Range(retained) /\ made \in Nat /\ retained \in Seq(Nat)
        /\ callDirs \ partial = Range(retained) \cup {made} /\ IsInjective(retained)
        /\ step' = "settled" /\ UNCHANGED partial
    BY <1>2 DEF CallsInv, CallsTypes, DirsFit, InUse, RemovalOf
  <2>2. CASE callDirs' = callDirs \ {made} /\ UNCHANGED retained
    BY <2>1, <2>2 DEF DirsFit, InUse
  <2>3. CASE retained' = Append(retained, made) /\ UNCHANGED callDirs
    BY <2>1, <2>3, Appended DEF DirsFit, InUse
  <2>. QED  BY <1>2, <2>2, <2>3 DEF RemovalOf
<1>3. CASE Abort \/ EnterCall \/ ProbeAgent \/ InitializeEmptyRepository \/ ListModels \/ ProbeToolDenial \/ CallModel
  BY <1>3 DEF CallsInv, DirsFit, InUse, Abort, EnterCall, ProbeAgent, InitializeEmptyRepository, ListModels,
     ProbeToolDenial, CallModel, SettleUse, callResultVars, callDiskVars
<1>4. CASE KeepPromptBack
  <2>1. ~InUse /\ ~InUse'  BY <1>4, CallsAssumption DEF CallsInv, CallsTypes, CallsTypeOK, CallerFits, InUse, KeepPromptBack, Return, AskAgain, Callers
  <2>. QED  BY <1>4, <2>1 DEF CallsInv, DirsFit, KeepPromptBack, callDiskVars
<1>5. CASE GradeCase
  <2>1. ~InUse /\ ~InUse'  BY <1>5 DEF InUse, GradeCase, Return, AskAgain
  <2>. QED  BY <1>5, <2>1 DEF CallsInv, DirsFit, GradeCase, callDiskVars
<1>6. CASE WriteTaskConclusions
  <2>1. ~InUse /\ ~InUse'  BY <1>6 DEF InUse, WriteTaskConclusions, Return, AskAgain
  <2>. QED  BY <1>6, <2>1 DEF CallsInv, DirsFit, WriteTaskConclusions, callDiskVars
<1>7. CASE BeginDraft \/ CheckCriteriaEffort \/ DraftCriteria
  <2>1. ~InUse /\ ~InUse'
    BY <1>7 DEF InUse, BeginDraft, CheckCriteriaEffort, DraftCriteria, SettleUse, Return, AskAgain
  <2>. QED  BY <1>7, <2>1 DEF CallsInv, DirsFit, BeginDraft, CheckCriteriaEffort, DraftCriteria, callDiskVars
<1>8. CASE CheckListing \/ CheckToolDenial
  <2>1. ~InUse /\ ~InUse'  BY <1>8 DEF InUse, CheckListing, CheckToolDenial, Return
  <2>. QED  BY <1>8, <2>1 DEF CallsInv, DirsFit, CheckListing, CheckToolDenial, callDiskVars
<1>. QED
  BY <1>1, <1>2, <1>3, <1>4, <1>5, <1>6, <1>7, <1>8 DEF CallsNext, UseCallDirectory

-----------------------------------------------------------------------------
Written == Outcomes \cup {"template"}

\* What is kept of a call is one record more, or nothing.
LEMMA RecordsGrow ==
  ASSUME CallsInv, NEW o \in Written, records' = Append(records, o)
  PROVE  /\ records' \in Seq(Written) /\ Len(records') = Len(records) + 1 /\ Len(records) \in Nat
         /\ Range(records') \subseteq Written
         /\ \A i \in 1..Len(records) : records'[i] = records[i]
         /\ records'[Len(records) + 1] = o
<1>1. records \in Seq(Written) /\ Range(records) \subseteq Written
  BY DEF CallsInv, CallsTypes, CallsTypeOK, Written
<1>. QED  BY <1>1, Appended

\* How a caller's actions write the records.
LEMMA RecordsAre ==
  ASSUME CallsInv, CallsNext, ~UNCHANGED records
  PROVE  \/ \E o \in Written : records' = Append(records, o)
         \/ /\ job = "conclude" /\ step' = "done"
            /\ records' = [t \in 1..NumTasks |-> IF t \in DOMAIN records THEN records[t] ELSE "template"]
<1>1. outcome \in Written /\ "template" \in Written /\ "replied" \in Written /\ job \in Callers
  BY CallsAssumption DEF CallsInv, CallsTypes, CallsTypeOK, Written, Outcomes
<1>2. KeepPromptBack \/ GradeCase \/ WriteTaskConclusions \/ CheckListing \/ CheckToolDenial
  BY DEF CallsNext, UseCallDirectory, Abort, EnterCall, ProbeAgent, CreateModelCallEnvironment,
     InitializeEmptyRepository, ListModels, ProbeToolDenial, CallModel, RemovalOf, BeginDraft,
     CheckCriteriaEffort, DraftCriteria, callResultVars
<1>3. CASE KeepPromptBack
  BY <1>1, <1>3 DEF KeepPromptBack, Record, CallsInv, CallerFits, Callers
<1>4. CASE GradeCase  BY <1>1, <1>4 DEF GradeCase, Record
<1>5. CASE WriteTaskConclusions  BY <1>1, <1>5 DEF WriteTaskConclusions, Record, Return
<1>6. CASE CheckListing \/ CheckToolDenial  BY <1>1, <1>6 DEF CheckListing, CheckToolDenial, Record
<1>. QED  BY <1>2, <1>3, <1>4, <1>5, <1>6

LEMMA TemplateRest ==
  ASSUME CallsInv
  PROVE  LET rest == [t \in 1..NumTasks |-> IF t \in DOMAIN records THEN records[t] ELSE "template"]
         IN  rest \in Seq(Written) /\ Range(rest) \subseteq Written /\ Len(rest) = NumTasks
<1>. DEFINE rest == [t \in 1..NumTasks |-> IF t \in DOMAIN records THEN records[t] ELSE "template"]
<1>1. \A t \in DOMAIN records : records[t] \in Written
  BY DEF CallsInv, CallsTypes, Written
<1>2. rest \in [1..NumTasks -> Written]
  BY <1>1 DEF Written
<1>3. rest \in Seq(Written) /\ Len(rest) = NumTasks
  BY <1>2, CallsAssumption
<1>. QED  BY <1>2, <1>3 DEF Range

LEMMA RecordTypes ==
  ASSUME CallsInv, CallsNext
  PROVE  records' \in Seq(Written) /\ Range(records') \subseteq Written
<1>1. CASE UNCHANGED records  BY <1>1 DEF CallsInv, CallsTypes, CallsTypeOK, Written
<1>2. CASE ~UNCHANGED records  BY <1>2, RecordsAre, RecordsGrow, TemplateRest
<1>. QED  BY <1>1, <1>2

LEMMA TypesKeep ==
  ASSUME CallsInv, CallsNext
  PROVE  CallsTypes'
<1>. USE DEF CallsInv, CallsTypes, CallsTypeOK
<1>1. records' \in Seq(Outcomes \cup {"template"}) /\ Range(records)' \subseteq Outcomes \cup {"template"}
  BY RecordTypes DEF Written, Range
<1>2. job' \in Jobs
  BY DEF CallsNext, UseCallDirectory, Abort, EnterCall, ProbeAgent, CreateModelCallEnvironment,
     InitializeEmptyRepository, ListModels, ProbeToolDenial, CallModel, RemovalOf, BeginDraft,
     CheckCriteriaEffort, DraftCriteria, KeepPromptBack, GradeCase, WriteTaskConclusions, CheckListing, CheckToolDenial
<1>3. step' \in {"asked", "probing", "ready", "made", "repository", "calling", "removing", "settled", "done"}
  <2>1. CASE UseCallDirectory \/ Abort
    BY <2>1 DEF UseCallDirectory, Abort, EnterCall, ProbeAgent, CreateModelCallEnvironment,
     InitializeEmptyRepository, ListModels, ProbeToolDenial, CallModel, RemovalOf, SettleUse
  <2>2. CASE KeepPromptBack
    BY <2>2, CallsAssumption DEF KeepPromptBack, CallerFits, Callers, Return, AskAgain
  <2>. QED  BY <2>1, <2>2 DEF CallsNext, BeginDraft, CheckCriteriaEffort, DraftCriteria, GradeCase, WriteTaskConclusions,
     CheckListing, CheckToolDenial, SettleUse, Return, AskAgain
<1>4. purpose' \in {"listing", "denial", "call"} /\ aborted' \in BOOLEAN
  BY DEF CallsNext, UseCallDirectory, Abort, EnterCall, ProbeAgent, CreateModelCallEnvironment,
     InitializeEmptyRepository, ListModels, ProbeToolDenial, CallModel, RemovalOf, BeginDraft,
     CheckCriteriaEffort, DraftCriteria, KeepPromptBack, GradeCase, WriteTaskConclusions, CheckListing, CheckToolDenial
<1>5. outcome' \in Outcomes
  BY DEF CallsNext, UseCallDirectory, Abort, EnterCall, ProbeAgent, CreateModelCallEnvironment,
     InitializeEmptyRepository, ListModels, ProbeToolDenial, CallModel, RemovalOf, BeginDraft,
     CheckCriteriaEffort, DraftCriteria, KeepPromptBack, GradeCase, WriteTaskConclusions, CheckListing, CheckToolDenial,
     callResultVars, SettleUse, Outcomes
<1>6. status' \in {"none", "finished", "failed", "cancelled", "valid", "invalid"}
  <2>1. CASE UseCallDirectory \/ Abort
    BY <2>1 DEF UseCallDirectory, Abort, EnterCall, ProbeAgent, CreateModelCallEnvironment,
     InitializeEmptyRepository, ListModels, ProbeToolDenial, CallModel, RemovalOf, callResultVars
  <2>2. CASE KeepPromptBack
    BY <2>2, CallsAssumption DEF KeepPromptBack, CallerFits, Callers, Return, AskAgain
  <2>. QED  BY <2>1, <2>2 DEF CallsNext, BeginDraft, CheckCriteriaEffort, DraftCriteria, GradeCase, WriteTaskConclusions,
     CheckListing, CheckToolDenial, SettleUse, Return, AskAgain
<1>7. /\ made' \in Nat /\ callDirs' \subseteq 1..made' /\ partial' \subseteq 1..made'
      /\ made <= made'
  <2>. made \in Nat /\ callDirs \subseteq 1..made /\ partial \subseteq 1..made  OBVIOUS
  <2>1. CASE CreateModelCallEnvironment
    <3>1. made' = made \/ made' = made + 1 
      BY <2>1 DEF CreateModelCallEnvironment, callDiskVars
    <3>2. 1..made \subseteq 1..made' /\ made <= made' /\ made' \in Nat  BY <3>1
    <3>3. /\ callDirs' \subseteq callDirs \cup {made'} /\ partial' \subseteq partial \cup {made'}
          /\ made' \in 1..made' \/ UNCHANGED callDiskVars
      BY <2>1 DEF CreateModelCallEnvironment, callDiskVars
    <3>. QED  BY <3>2, <3>3 DEF callDiskVars
  <2>2. CASE RemovalOf
    <3>1. made' = made /\ partial' = partial  BY <2>2 DEF RemovalOf
    <3>2. callDirs' \subseteq callDirs  BY <2>2 DEF RemovalOf
    <3>3. made <= made /\ callDirs \subseteq 1..made /\ partial \subseteq 1..made /\ made \in Nat  OBVIOUS
    <3>. HIDE DEF CallsInv
    <3>. QED  BY <3>1, <3>2, <3>3
  <2>3. CASE ~CreateModelCallEnvironment /\ ~RemovalOf
    <3>1. UNCHANGED callDiskVars
      BY <2>3 DEF CallsNext, UseCallDirectory, Abort, EnterCall, ProbeAgent, 
         InitializeEmptyRepository, ListModels, ProbeToolDenial, CallModel, BeginDraft,
         CheckCriteriaEffort, DraftCriteria, KeepPromptBack, GradeCase, WriteTaskConclusions, CheckListing, CheckToolDenial
    <3>. QED  BY <3>1 DEF callDiskVars
  <2>. QED  BY <2>1, <2>2, <2>3
<1>8. shown' \subseteq 1..made' /\ called' \in Seq(Nat) /\ Range(called)' \subseteq 1..made'
  <2>1. CASE ProbeToolDenial
    <3>1. made' = made /\ made \in 1..made  BY <2>1 DEF ProbeToolDenial, callDiskVars, DirsFit, InUse
    <3>2. shown' \subseteq shown \cup {made} /\ (called' = called \/ called' = Append(called, made))
      BY <2>1 DEF ProbeToolDenial
    <3>3. called \in Seq(Nat) /\ made \in Nat  OBVIOUS
    <3>4. Append(called, made) \in Seq(Nat) /\ Range(Append(called, made)) = Range(called) \cup {made}
      BY <3>3, Appended
    <3>5. called' \in Seq(Nat) /\ Range(called)' \subseteq Range(called) \cup {made}
      BY <3>2, <3>3, <3>4
    <3>. QED  BY <3>1, <3>2, <3>5
  <2>2. CASE ~ProbeToolDenial
    <3>1. UNCHANGED <<shown, called>>
      BY <2>2 DEF CallsNext, UseCallDirectory, Abort, EnterCall, ProbeAgent, CreateModelCallEnvironment, 
         InitializeEmptyRepository, ListModels, CallModel, RemovalOf, BeginDraft, callHistory,
         CheckCriteriaEffort, DraftCriteria, KeepPromptBack, GradeCase, WriteTaskConclusions, CheckListing, CheckToolDenial
    <3>. QED  BY <3>1, <1>7
  <2>. QED  BY <2>1, <2>2
<1>9. retained' \in Seq(Nat) /\ Range(retained)' \subseteq 1..made'
  <2>1. CASE RemovalOf
    <3>1. made' = made /\ made \in 1..made  BY <2>1 DEF RemovalOf, DirsFit, InUse
    <3>2. retained' = retained \/ retained' = Append(retained, made)  BY <2>1 DEF RemovalOf
    <3>3. retained \in Seq(Nat) /\ made \in Nat  OBVIOUS
    <3>4. Append(retained, made) \in Seq(Nat) /\ Range(Append(retained, made)) = Range(retained) \cup {made}
      BY <3>3, Appended
    <3>5. retained' \in Seq(Nat) /\ Range(retained)' \subseteq Range(retained) \cup {made}
      BY <3>2, <3>3, <3>4
    <3>. QED  BY <3>1, <3>5
  <2>2. CASE ~RemovalOf
    <3>1. UNCHANGED retained
      BY <2>2 DEF CallsNext, UseCallDirectory, Abort, EnterCall, ProbeAgent, CreateModelCallEnvironment, 
         InitializeEmptyRepository, ListModels, ProbeToolDenial, CallModel, BeginDraft, callResultVars,
         CheckCriteriaEffort, DraftCriteria, KeepPromptBack, GradeCase, WriteTaskConclusions, CheckListing, CheckToolDenial
    <3>. QED  BY <3>1, <1>7
  <2>. QED  BY <2>1, <2>2
<1>. QED  BY <1>1, <1>2, <1>3, <1>4, <1>5, <1>6, <1>7, <1>8, <1>9

\* A model is called in the directory it was made for, once.
LEMMA CalledKeep ==
  ASSUME CallsInv, CallsNext
  PROVE  CalledFits'
<1>0. /\ called \in Seq(Nat) /\ made \in Nat /\ Len(called) \in Nat /\ Len(records) \in Nat
      /\ Range(called) \subseteq 1..made /\ records \in Seq(Written)
  BY DEF CallsInv, CallsTypes, CallsTypeOK, Written
<1>1. CASE ProbeToolDenial
  <2>1. made \notin Range(called) /\ UNCHANGED <<made, purpose, records>> /\ step = "repository"
        /\ Len(called) <= Len(records)
    BY <1>1 DEF ProbeToolDenial, CallsInv, CalledFits, callDiskVars
  <2>2. CASE called' = Append(called, made) /\ step' = "calling" /\ shown' = shown \cup {made} /\ purpose = "call"
    <3>1. /\ Len(called') = Len(called) + 1 /\ Range(called') = Range(called) \cup {made} /\ IsInjective(called')
      BY <1>0, <2>1, <2>2, Appended DEF CallsInv, CalledFits
    <3>. QED  BY <1>0, <2>1, <2>2, <3>1 DEF CallsInv, CalledFits
  <2>3. CASE called' = called /\ step' = "removing" /\ shown \subseteq shown'
    BY <1>0, <2>1, <2>3 DEF CallsInv, CalledFits
  <2>. QED  BY <1>1, <2>2, <2>3 DEF ProbeToolDenial
<1>2. CASE ~ProbeToolDenial
  <2>0. UNCHANGED <<shown, called>>
    BY <1>2 DEF CallsNext, UseCallDirectory, Abort, EnterCall, ProbeAgent, CreateModelCallEnvironment, 
       InitializeEmptyRepository, ListModels, CallModel, RemovalOf, BeginDraft, callHistory,
       CheckCriteriaEffort, DraftCriteria, KeepPromptBack, GradeCase, WriteTaskConclusions, CheckListing, CheckToolDenial
  <2>1. Range(called') \subseteq shown' /\ IsInjective(called')
    BY <2>0 DEF CallsInv, CalledFits
  <2>2. step' \in {"made", "repository"} => made' \notin Range(called')
    <3>1. CASE CreateModelCallEnvironment
      <4>1. step' \in {"made", "repository"} => made' = made + 1
        BY <3>1 DEF CreateModelCallEnvironment, SettleUse
      <4>. QED  BY <4>1, <1>0, <2>0
    <3>2. CASE InitializeEmptyRepository
      BY <3>2, <2>0 DEF InitializeEmptyRepository, CallsInv, CalledFits, callDiskVars
    <3>3. CASE KeepPromptBack
      BY <3>3, <2>0, CallsAssumption DEF KeepPromptBack, CallsInv, CallsTypes, CallsTypeOK, CallerFits, Callers, Return, AskAgain
    <3>4. CASE Abort
      BY <3>4, <2>0 DEF Abort, CallsInv, CalledFits, callDiskVars
    <3>5. step' \in {"made", "repository"} => CreateModelCallEnvironment \/ InitializeEmptyRepository \/ KeepPromptBack \/ Abort
      BY <1>2 DEF CallsNext, UseCallDirectory, EnterCall, ProbeAgent, 
         ListModels, CallModel, RemovalOf, BeginDraft, SettleUse, Return, AskAgain,
         CheckCriteriaEffort, DraftCriteria, GradeCase, WriteTaskConclusions, CheckListing, CheckToolDenial
    <3>. QED  BY <3>1, <3>2, <3>3, <3>4, <3>5
  <2>3. purpose' # "call" => called' = <<>>
    <3>1. purpose # "call" => called = <<>>  BY DEF CallsInv, CalledFits
    <3>2. CASE CheckListing  BY <2>0, <3>1, <3>2 DEF CheckListing
    <3>3. CASE CheckCriteriaEffort  BY <2>0, <3>1, <3>3 DEF CheckCriteriaEffort
    <3>4. CASE ~CheckListing /\ ~CheckCriteriaEffort
      <4>1. UNCHANGED purpose
        BY <1>2, <3>4 DEF CallsNext, UseCallDirectory, Abort, EnterCall, ProbeAgent, CreateModelCallEnvironment,
           InitializeEmptyRepository, ListModels, CallModel, RemovalOf, BeginDraft, 
           DraftCriteria, KeepPromptBack, GradeCase, WriteTaskConclusions, CheckToolDenial
      <4>. QED  BY <2>0, <3>1, <4>1
    <3>. QED  BY <3>2, <3>3, <3>4
  <2>4. step' # "done" =>
          Len(called') <= Len(records') + (IF step' \in {"calling", "removing", "settled"} THEN 1 ELSE 0)
    <3>1. CASE UNCHANGED records
      <4>1. CASE UseCallDirectory \/ Abort
        BY <1>0, <1>2, <2>0, <3>1, <4>1 DEF UseCallDirectory, Abort, EnterCall, ProbeAgent, CreateModelCallEnvironment, 
           CallsInv, CalledFits, InitializeEmptyRepository, ListModels, CallModel, RemovalOf, SettleUse
      <4>2. CASE BeginDraft \/ CheckCriteriaEffort \/ DraftCriteria
        BY <1>0, <2>0, <3>1, <4>2 DEF BeginDraft, CheckCriteriaEffort, DraftCriteria, CallsInv, CalledFits,
           Return, AskAgain, SettleUse
      <4>3. CASE KeepPromptBack \/ GradeCase \/ WriteTaskConclusions \/ CheckListing \/ CheckToolDenial
        <5>1. step' = "done" \/ \E o \in Written : records' = Append(records, o)
          <6>1. outcome \in Written /\ "template" \in Written /\ "replied" \in Written /\ job \in Callers
            BY CallsAssumption DEF CallsInv, CallsTypes, CallsTypeOK, Written, Outcomes
          <6>2. CASE KeepPromptBack
            BY <6>1, <6>2 DEF KeepPromptBack, Record, Return, CallsInv, CallerFits, Callers
          <6>3. CASE GradeCase  BY <6>1, <6>3 DEF GradeCase, Record, Return
          <6>4. CASE WriteTaskConclusions  BY <6>1, <6>4 DEF WriteTaskConclusions, Record, Return
          <6>5. CASE CheckListing \/ CheckToolDenial
            BY <6>1, <6>5 DEF CheckListing, CheckToolDenial, Record
          <6>. QED  BY <4>3, <6>2, <6>3, <6>4, <6>5
        <5>2. step' = "done"
          BY <5>1, <3>1, <1>0, RecordsGrow
        <5>. QED  BY <5>2
      <4>. QED  BY <4>1, <4>2, <4>3 DEF CallsNext
    <3>2. CASE ~UNCHANGED records
      <4>1. (Len(records') = Len(records) + 1 /\ Len(records) \in Nat) \/ step' = "done"
        BY <3>2, RecordsAre, RecordsGrow
      <4>2. Len(called) <= Len(records) + 1 \/ step = "done"
        BY <1>0 DEF CallsInv, CalledFits
      <4>3. step # "done"
        BY <3>2 DEF CallsNext, UseCallDirectory, Abort, EnterCall, ProbeAgent, CreateModelCallEnvironment,
           InitializeEmptyRepository, ListModels, ProbeToolDenial, CallModel, RemovalOf, BeginDraft,
           CheckCriteriaEffort, DraftCriteria, callResultVars,
           KeepPromptBack, GradeCase, WriteTaskConclusions, CheckListing, CheckToolDenial
      <4>. QED  BY <1>0, <2>0, <4>1, <4>2, <4>3
    <3>. QED  BY <3>1, <3>2
  <2>. QED  BY <2>1, <2>2, <2>3, <2>4 DEF CalledFits
<1>. QED  BY <1>1, <1>2

\* What each caller has come to stays true.
LEMMA CallerKeep ==
  ASSUME CallsInv, CallsNext
  PROVE  CallerFits'
<1>0. /\ records \in Seq(Written) /\ Len(records) \in Nat /\ DOMAIN records = 1..Len(records)
      /\ job \in Callers /\ NumTasks \in Nat \ {0}
  BY CallsAssumption DEF CallsInv, CallsTypes, CallsTypeOK, Written
<1>1. UNCHANGED job
  BY DEF CallsNext, UseCallDirectory, Abort, EnterCall, ProbeAgent, CreateModelCallEnvironment,
     InitializeEmptyRepository, ListModels, ProbeToolDenial, CallModel, RemovalOf, BeginDraft,
     CheckCriteriaEffort, DraftCriteria, KeepPromptBack, GradeCase, WriteTaskConclusions, CheckListing, CheckToolDenial
<1>2. CASE UseCallDirectory \/ Abort
  <2>1. UNCHANGED <<job, purpose, records, status>> /\ (step' = "done" <=> step = "done")
    BY <1>2 DEF UseCallDirectory, Abort, EnterCall, ProbeAgent, CreateModelCallEnvironment,
       InitializeEmptyRepository, ListModels, ProbeToolDenial, CallModel, RemovalOf, SettleUse, callResultVars
  <2>2. step' = "calling" => purpose = "call"
    BY <1>2 DEF CallsInv, CallerFits, UseCallDirectory, Abort, EnterCall, ProbeAgent, CreateModelCallEnvironment,
       InitializeEmptyRepository, ListModels, ProbeToolDenial, CallModel, RemovalOf, SettleUse, callResultVars
  <2>. QED  BY <2>1, <2>2 DEF CallsInv, CallerFits
<1>3. CASE KeepPromptBack
  <2>1. purpose = "call" /\ UNCHANGED purpose /\ job # "validate" /\ step = "asked" /\ status = "none"
    BY <1>3 DEF KeepPromptBack, CallsInv, CallerFits
  <2>2. CASE job = "grade"
    BY <1>1, <1>3, <2>1, <2>2 DEF KeepPromptBack, Return, CallerFits
  <2>3. CASE job = "draft"
    BY <1>1, <1>3, <2>1, <2>3 DEF KeepPromptBack, Return, CallerFits, CallsInv
  <2>4. CASE job = "conclude"
    <3>1. records' = Append(records, "template") /\ "template" \in Written
          /\ IF Len(records') = NumTasks THEN Return("finished") ELSE AskAgain
      BY <1>3, <2>4 DEF KeepPromptBack, Record, Written
    <3>2. Len(records') = Len(records) + 1  BY <3>1, RecordsGrow
    <3>3. Len(records) < NumTasks  BY <2>1, <2>4 DEF CallsInv, CallerFits
    <3>. QED  BY <1>0, <1>1, <2>1, <2>4, <3>1, <3>2, <3>3 DEF Return, AskAgain, CallerFits
  <2>. QED  BY <1>0, <2>1, <2>2, <2>3, <2>4 DEF Callers
<1>4. CASE GradeCase
  <2>1. job = "grade" /\ purpose' = "call" /\ status = "none" /\ outcome \in Written
        /\ Len(records) < GraderCallLimit /\ (\A i \in 1..Len(records) : records[i] = "unfinished")
    BY <1>0, <1>4 DEF GradeCase, CallsInv, CallerFits, CallsTypes, CallsTypeOK, Written
  <2>2. CASE step' = "done" /\ status' \in {"finished", "cancelled"}
    BY <1>1, <2>1, <2>2 DEF CallerFits
  <2>3. CASE Record(outcome) /\ outcome = "unfinished" /\ Len(records') < GraderCallLimit /\ AskAgain
    <3>1. /\ Len(records') = Len(records) + 1 /\ records' \in Seq(Written)
          /\ \A i \in 1..Len(records) : records'[i] = records[i]
          /\ records'[Len(records) + 1] = outcome
      BY <2>1, <2>3, RecordsGrow DEF Record
    <3>2. \A i \in DOMAIN records' : records'[i] = "unfinished"
      BY <1>0, <2>1, <2>3, <3>1
    <3>. QED  BY <1>1, <2>1, <2>3, <3>2 DEF CallerFits, AskAgain
  <2>. QED  BY <1>4, <2>2, <2>3 DEF GradeCase, Return
<1>5. CASE WriteTaskConclusions
  <2>1. job = "conclude" /\ purpose' = "call" /\ status = "none" /\ outcome \in Written
        /\ Len(records) < NumTasks
    BY <1>0, <1>5 DEF WriteTaskConclusions, CallsInv, CallerFits, CallsTypes, CallsTypeOK, Written
  <2>2. CASE step' = "done" /\ status' = "finished"
    BY <1>1, <2>1, <2>2 DEF CallerFits
  <2>3. CASE (Record("template") \/ Record("replied")) /\ Len(records') # NumTasks /\ AskAgain
    <3>1. PICK o \in Written : records' = Append(records, o)
      BY <2>3 DEF Record, Written, Outcomes
    <3>2. Len(records') = Len(records) + 1  BY <3>1, RecordsGrow
    <3>. QED  BY <1>0, <1>1, <2>1, <2>3, <3>2 DEF CallerFits, AskAgain
  <2>. QED  BY <1>5, <2>2, <2>3 DEF WriteTaskConclusions, Return
<1>6. CASE BeginDraft
  BY <1>1, <1>6 DEF BeginDraft, CallsInv, CallerFits, Return, SettleUse
<1>7. CASE CheckCriteriaEffort \/ DraftCriteria
  BY <1>1, <1>7 DEF CheckCriteriaEffort, DraftCriteria, CallsInv, CallerFits, Return, AskAgain
<1>8. CASE CheckListing
  BY <1>1, <1>8 DEF CheckListing, CallsInv, CallerFits
<1>9. CASE CheckToolDenial
  BY <1>1, <1>9 DEF CheckToolDenial, CallsInv, CallerFits, Return
<1>. QED
  BY <1>2, <1>3, <1>4, <1>5, <1>6, <1>7, <1>8, <1>9 DEF CallsNext

LEMMA OutcomeKeep ==
  ASSUME CallsInv, CallsNext
  PROVE  OutcomeFits'
<1>1. outcome' = "cancelled" => aborted'
  BY DEF CallsNext, UseCallDirectory, Abort, EnterCall, ProbeAgent, CreateModelCallEnvironment, CallsInv, OutcomeFits, SettleUse,
     InitializeEmptyRepository, ListModels, ProbeToolDenial, CallModel, RemovalOf, BeginDraft, callResultVars,
     CheckCriteriaEffort, DraftCriteria, KeepPromptBack, GradeCase, WriteTaskConclusions, CheckListing, CheckToolDenial
<1>2. outcome' = "denied" => shown' # {}
  <2>1. CASE ProbeToolDenial  BY <2>1 DEF ProbeToolDenial
  <2>2. CASE ~ProbeToolDenial
    <3>1. UNCHANGED shown /\ (outcome' = "denied" => outcome = "denied")
      BY <2>2 DEF CallsNext, UseCallDirectory, Abort, EnterCall, ProbeAgent, CreateModelCallEnvironment, SettleUse,
     InitializeEmptyRepository, ListModels, CallModel, RemovalOf, BeginDraft, callResultVars, callHistory,
     CheckCriteriaEffort, DraftCriteria, KeepPromptBack, GradeCase, WriteTaskConclusions, CheckListing, CheckToolDenial
    <3>. QED  BY <3>1 DEF CallsInv, OutcomeFits
  <2>. QED  BY <2>1, <2>2
<1>. QED  BY <1>1, <1>2 DEF OutcomeFits

\* The accounts of a caller that has returned.
LEMMA AccountedKeep ==
  ASSUME CallsInv, CallsNext
  PROVE  CallsAccounted'
<1>0. /\ records \in Seq(Written) /\ Len(records) \in Nat /\ DOMAIN records = 1..Len(records)
      /\ job \in Callers /\ NumTasks \in Nat \ {0} /\ Len(called) \in Nat /\ outcome \in Written
  BY CallsAssumption DEF CallsInv, CallsTypes, CallsTypeOK, Written
<1>1. DirsFit' /\ CalledFits' /\ CallerFits' /\ OutcomeFits' /\ CallsTypes'
  BY DirsKeep, CalledKeep, CallerKeep, OutcomeKeep, TypesKeep
<1>2. UNCHANGED job
  BY DEF CallsNext, UseCallDirectory, Abort, EnterCall, ProbeAgent, CreateModelCallEnvironment,
     InitializeEmptyRepository, ListModels, ProbeToolDenial, CallModel, RemovalOf, BeginDraft,
     CheckCriteriaEffort, DraftCriteria, KeepPromptBack, GradeCase, WriteTaskConclusions, CheckListing, CheckToolDenial
<1>3. Range(called') \subseteq shown' /\ IsInjective(called')  BY <1>1 DEF CalledFits
<1>4. status' # "none" => Range(retained') = callDirs' \ partial' /\ IsInjective(retained')
  BY <1>1 DEF CallerFits, DirsFit, InUse
<1>5. CASE status # "none"
  <2>1. step = "done"  BY <1>5 DEF CallsInv, CallerFits
  <2>2. UNCHANGED <<job, status, records, called, shown, aborted>>
    BY <2>1, <1>5 DEF CallsNext, UseCallDirectory, Abort, EnterCall, ProbeAgent, CreateModelCallEnvironment,
       InitializeEmptyRepository, ListModels, ProbeToolDenial, CallModel, RemovalOf, BeginDraft,
       CheckCriteriaEffort, DraftCriteria, KeepPromptBack, GradeCase, WriteTaskConclusions, CheckListing, CheckToolDenial
  <2>. QED  BY <1>3, <1>4, <2>2 DEF CallsInv, CallsAccounted
<1>6. CASE status = "none" /\ status' = "none"
  BY <1>3, <1>6 DEF CallsAccounted
<1>7. CASE status = "none" /\ status' # "none"
  <2>0. step # "done" /\ step' = "done"
    BY <1>1, <1>7 DEF CallsInv, CallerFits
  <2>1. /\ purpose # "call" => called = <<>>
        /\ Len(called) <= Len(records) + (IF step = "settled" THEN 1 ELSE 0) \/ step \in {"calling", "removing"}
        /\ job = "grade" => Len(records) < 3 /\ \A i \in 1..Len(records) : records[i] = "unfinished"
        /\ job = "conclude" => Len(records) < NumTasks
        /\ job = "draft" => records = <<>>
        /\ job = "validate" => purpose # "call"
        /\ job \in {"grade", "conclude"} => purpose = "call"
    BY <1>0, <2>0 DEF CallsInv, CalledFits, CallerFits, GraderCallLimit
  <2>2. UNCHANGED called
    BY <1>7 DEF CallsNext, UseCallDirectory, Abort, EnterCall, ProbeAgent, CreateModelCallEnvironment,
       InitializeEmptyRepository, ListModels, ProbeToolDenial, CallModel, RemovalOf, BeginDraft, callHistory, callResultVars,
       CheckCriteriaEffort, DraftCriteria, KeepPromptBack, GradeCase, WriteTaskConclusions, CheckListing, CheckToolDenial
  <2>3. step \notin {"calling", "removing"}
    BY <1>7 DEF CallsNext, UseCallDirectory, Abort, EnterCall, ProbeAgent, CreateModelCallEnvironment,
       InitializeEmptyRepository, ListModels, ProbeToolDenial, CallModel, RemovalOf, BeginDraft, callResultVars,
       CheckCriteriaEffort, DraftCriteria, KeepPromptBack, GradeCase, WriteTaskConclusions, CheckListing, CheckToolDenial
  <2>4. Len(called') <= CASE job' = "grade" -> GraderCallLimit
                          [] job' = "conclude" -> NumTasks
                          [] job' = "draft" -> 1
                          [] OTHER -> 0
    BY <1>0, <1>2, <2>1, <2>2, <2>3 DEF Callers, GraderCallLimit
  <2>5. status' = "cancelled" => aborted'
    <3>1. CASE KeepPromptBack
      BY <1>0, <1>7, <2>1, <3>1 DEF KeepPromptBack, Return, AskAgain, Callers
    <3>2. CASE ~KeepPromptBack
      BY <1>7, <3>2 DEF CallsNext, UseCallDirectory, Abort, EnterCall, ProbeAgent, CreateModelCallEnvironment,
         InitializeEmptyRepository, ListModels, ProbeToolDenial, CallModel, RemovalOf, BeginDraft, callResultVars,
         CheckCriteriaEffort, DraftCriteria, GradeCase, WriteTaskConclusions, CheckListing, CheckToolDenial,
         Return, AskAgain, CallsInv, OutcomeFits
    <3>. QED  BY <3>1, <3>2
  <2>6. job' = "grade" /\ status' = "finished" =>
          /\ \A i \in 1..(Len(records') - 1) : records'[i] = "unfinished"
          /\ records' # <<>> /\ Last(records') = "unfinished" => Len(records') = GraderCallLimit
    <3>1. SUFFICES ASSUME job = "grade", status' = "finished"
                   PROVE  /\ \A i \in 1..(Len(records') - 1) : records'[i] = "unfinished"
                          /\ records' # <<>> /\ Last(records') = "unfinished" => Len(records') = GraderCallLimit
      BY <1>2
    <3>2. KeepPromptBack \/ GradeCase
      BY <1>7, <3>1 DEF CallsNext, UseCallDirectory, Abort, EnterCall, ProbeAgent, CreateModelCallEnvironment,
         InitializeEmptyRepository, ListModels, ProbeToolDenial, CallModel, RemovalOf, BeginDraft, callResultVars,
         CheckCriteriaEffort, DraftCriteria, WriteTaskConclusions, CheckListing, CheckToolDenial
    <3>3. CASE KeepPromptBack
      <4>1. records' = <<>> /\ Len(records') = 0  BY <3>1, <3>3, <1>0 DEF KeepPromptBack
      <4>. QED  BY <4>1
    <3>4. CASE GradeCase
      <4>1. /\ records' = Append(records, outcome)
            /\ outcome = "unfinished" => ~(Len(records') < GraderCallLimit)
        BY <1>7, <2>0, <3>1, <3>4 DEF GradeCase, Record, Return, AskAgain
      <4>2. /\ Len(records') = Len(records) + 1 /\ records' \in Seq(Written)
            /\ \A i \in 1..Len(records) : records'[i] = records[i]
            /\ records'[Len(records) + 1] = outcome
        BY <1>0, <4>1, RecordsGrow
      <4>3. Last(records') = outcome  BY <4>2 DEF Last
      <4>4. \A i \in 1..(Len(records') - 1) : records'[i] = "unfinished"
        BY <1>0, <2>1, <3>1, <4>2
      <4>. QED  BY <1>0, <2>1, <3>1, <4>1, <4>2, <4>3, <4>4 DEF GraderCallLimit
    <3>. QED  BY <3>2, <3>3, <3>4
  <2>7. job' = "conclude" => Len(records') = NumTasks
    <3>1. SUFFICES ASSUME job = "conclude"  PROVE Len(records') = NumTasks
      BY <1>2
    <3>2. KeepPromptBack \/ WriteTaskConclusions
      BY <1>7, <3>1 DEF CallsNext, UseCallDirectory, Abort, EnterCall, ProbeAgent, CreateModelCallEnvironment,
         InitializeEmptyRepository, ListModels, ProbeToolDenial, CallModel, RemovalOf, BeginDraft, callResultVars,
         CheckCriteriaEffort, DraftCriteria, GradeCase, CheckListing, CheckToolDenial
    <3>3. CASE KeepPromptBack
      BY <2>0, <3>1, <3>3 DEF KeepPromptBack, AskAgain
    <3>4. CASE WriteTaskConclusions
      <4>1. CASE outcome = "cancelled"
        <5>1. records' = [t \in 1..NumTasks |-> IF t \in DOMAIN records THEN records[t] ELSE "template"]
          BY <3>4, <4>1 DEF WriteTaskConclusions
        <5>. QED  BY <5>1, TemplateRest
      <4>2. CASE outcome # "cancelled"
        BY <2>0, <3>4, <4>2 DEF WriteTaskConclusions, AskAgain
      <4>. QED  BY <4>1, <4>2
    <3>. QED  BY <3>2, <3>3, <3>4
  <2>8. status' = "valid" => shown' # {}
    <3>1. SUFFICES ASSUME status' = "valid"  PROVE shown' # {}
      OBVIOUS
    <3>2. CheckToolDenial
      BY <1>0, <1>7, <2>1, <3>1 DEF CallsNext, UseCallDirectory, Abort, EnterCall, ProbeAgent, CreateModelCallEnvironment,
         InitializeEmptyRepository, ListModels, ProbeToolDenial, CallModel, RemovalOf, BeginDraft, callResultVars,
         CheckCriteriaEffort, DraftCriteria, GradeCase, WriteTaskConclusions, CheckListing, KeepPromptBack,
         Return, AskAgain, Callers
    <3>3. records' = Append(records, outcome) /\ records' = <<"listed", "denied">> /\ UNCHANGED shown
      BY <3>1, <3>2 DEF CheckToolDenial, Record, Return, callHistory
    <3>4. Len(records') = Len(records) + 1 /\ records'[Len(records) + 1] = outcome
      BY <1>0, <3>3, RecordsGrow
    <3>5. Len(records') = 2 /\ records'[2] = "denied"  BY <3>3
    <3>6. outcome = "denied"  BY <1>0, <3>4, <3>5
    <3>. QED  BY <3>3, <3>6 DEF CallsInv, OutcomeFits
  <2>. QED  BY <1>3, <1>4, <2>4, <2>5, <2>6, <2>7, <2>8 DEF CallsAccounted
<1>. QED  BY <1>5, <1>6, <1>7

-----------------------------------------------------------------------------
LEMMA CallsInit_Inv ==
  ASSUME CallsInit
  PROVE  CallsInv
<1>. USE CallsAssumption, EmptyIs DEF CallsInit
<1>0. job \in Callers  OBVIOUS
<1>1. CallsTypes
  <2>1. CallsTypeOK
    <3>1. /\ job \in Jobs /\ outcome \in Outcomes /\ status = "none" /\ aborted \in BOOLEAN
          /\ step \in {"ready", "asked"} /\ purpose \in {"listing", "call"}
      BY DEF Outcomes
    <3>2. /\ callDirs = {} /\ partial = {} /\ shown = {}
          /\ Range(called) = {} /\ Range(retained) = {} /\ Range(records) = {}
      OBVIOUS
    <3>. HIDE DEF CallsInit
    <3>. QED  BY <3>1, <3>2 DEF CallsTypeOK
  <2>2. made \in Nat /\ retained \in Seq(Nat) /\ called \in Seq(Nat) /\ records \in Seq(Outcomes \cup {"template"})
    OBVIOUS
  <2>. QED  BY <2>1, <2>2 DEF CallsTypes
<1>2. DirsFit  BY DEF DirsFit, InUse
<1>3. CalledFits  BY DEF CalledFits
<1>4. CallerFits  BY <1>0 DEF CallerFits, Callers, GraderCallLimit
<1>5. OutcomeFits  BY DEF OutcomeFits
<1>6. CallsAccounted  BY DEF CallsAccounted
<1>. QED  BY <1>1, <1>2, <1>3, <1>4, <1>5, <1>6 DEF CallsInv

LEMMA CallsInvStutters ==
  ASSUME CallsInv, UNCHANGED callVars
  PROVE  CallsInv'
<1>. USE DEF callVars, callResultVars, callDiskVars, callHistory, CallsInv
<1>1. CallsTypes'  BY DEF CallsTypes, CallsTypeOK
<1>2. DirsFit'  BY DEF DirsFit, InUse
<1>3. CalledFits'  BY DEF CalledFits
<1>4. CallerFits'  BY DEF CallerFits
<1>5. OutcomeFits'  BY DEF OutcomeFits
<1>6. CallsAccounted'  BY DEF CallsAccounted
<1>. QED  BY <1>1, <1>2, <1>3, <1>4, <1>5, <1>6

LEMMA CallsInvariant == CallsSpec => []CallsInv
<1>1. CallsInv /\ [CallsNext]_callVars => CallsInv'
  <2>1. CASE CallsNext
    BY <2>1, TypesKeep, DirsKeep, CalledKeep, CallerKeep, OutcomeKeep, AccountedKeep DEF CallsInv
  <2>2. CASE UNCHANGED callVars  BY <2>2, CallsInvStutters
  <2>. QED  BY <2>1, <2>2
<1>. QED  BY <1>1, CallsInit_Inv, PTL DEF CallsSpec

\* CallsTypeOK holds for any number of tasks and any set of callers.
THEOREM CallsTypeCorrect == CallsSpec => []CallsTypeOK
<1>1. CallsInv => CallsTypeOK  BY DEF CallsInv, CallsTypes
<1>. QED  BY <1>1, CallsInvariant, PTL

\* Every caller reports exactly the call directories it leaves behind, calls a
\* model only where its tools were shown denied and once in each directory, and
\* keeps to the number of calls, and of records, that its loop allows: the
\* grading, the conclusions, the draft and the validation alike, wherever a
\* call fails and whenever the command is interrupted.
THEOREM CallsAreAccounted == CallsSpec => []CallsAccounted
<1>1. CallsInv => CallsAccounted  BY DEF CallsInv
<1>. QED  BY <1>1, CallsInvariant, PTL

-----------------------------------------------------------------------------
(***************************************************************************)
(* What a stream lets through, for any finite sets of secrets and any      *)
(* output however it is cut: StreamRedactsWhole. Texts first, then one     *)
(* secret masked in a text (by the shortest text that a claim fails for),  *)
(* then the secrets one after the other (by their number), then the state. *)
(* Two facts carry it. A secret that masking leaves in a text was there    *)
(* before, since no secret holds a letter of the mask; so a later mask     *)
(* makes no new secret. And what is held back, the longest end that a      *)
(* secret may begin with, decides how everything before it comes out.      *)
(***************************************************************************)

Letters == Characters \cup Range(Mask) \cup {"?"}
Text == Seq(Letters)
Words == {s \in Seq(Characters) : s # <<>>}
Drop(t, k) == SubSeq(t, k + 1, Len(t))

\* A letter of the mask is no character.
LEMMA LettersAre ==
  /\ Letters = {"a", "b", "c", "w", "[", "]", "?"} /\ Characters = {"a", "b", "c", "w"}
  /\ Mask \in Text /\ Len(Mask) = 2 /\ Mask[1] = "[" /\ Mask[2] = "]"
  /\ Words \subseteq Text /\ <<>> \in Text
<1>1. Range(Mask) = {"[", "]"}  BY DEF Range, Mask
<1>2. Letters = {"a", "b", "c", "w", "[", "]", "?"} /\ Characters = {"a", "b", "c", "w"}
  BY <1>1 DEF Letters, Characters
<1>3. Mask \in Seq(Letters) /\ Len(Mask) = 2 /\ Mask[1] = "[" /\ Mask[2] = "]"  BY <1>2 DEF Mask
<1>4. Words \subseteq Seq(Letters)
  <2>1. Characters \subseteq Letters  BY <1>2
  <2>. QED  BY <2>1 DEF Words
<1>. QED  BY <1>2, <1>3, <1>4 DEF Text

\* Texts are equal that have the same letters.
LEMMA SameText ==
  ASSUME NEW t \in Text, NEW u \in Text, Len(t) = Len(u), \A i \in 1..Len(t) : t[i] = u[i]
  PROVE  t = u
BY DEF Text

LEMMA LettersOf ==
  ASSUME NEW t \in Text
  PROVE  Len(t) \in Nat /\ DOMAIN t = 1..Len(t) /\ \A i \in 1..Len(t) : t[i] \in Letters
BY DEF Text

LEMMA JoinIs ==
  ASSUME NEW t \in Text, NEW u \in Text
  PROVE  /\ t \o u \in Text /\ Len(t \o u) = Len(t) + Len(u)
         /\ \A i \in 1..Len(t) : (t \o u)[i] = t[i]
         /\ \A i \in 1..Len(u) : (t \o u)[Len(t) + i] = u[i]
BY DEF Text

LEMMA DropIs ==
  ASSUME NEW t \in Text, NEW k \in 0..Len(t)
  PROVE  /\ Drop(t, k) \in Text /\ Len(Drop(t, k)) = Len(t) - k
         /\ \A i \in 1..(Len(t) - k) : Drop(t, k)[i] = t[k + i]
<1>1. Len(t) \in Nat /\ t \in Seq(Letters)  BY DEF Text
<1>2. Drop(t, k) \in Seq(Letters)
  <2>1. \A i \in (k + 1)..Len(t) : t[i] \in Letters  BY <1>1
  <2>. QED  BY <1>1, <2>1 DEF Drop
<1>. QED  BY <1>1, <1>2 DEF Drop, Text

\* Joining is associative, and nothing joins to nothing.
LEMMA JoinsAre ==
  ASSUME NEW t \in Text, NEW u \in Text, NEW v \in Text
  PROVE  (t \o u) \o v = t \o (u \o v) /\ <<>> \o t = t /\ t \o <<>> = t
<1>1. /\ (t \o u) \o v \in Text /\ Len((t \o u) \o v) = Len(t) + Len(u) + Len(v)
      /\ t \o (u \o v) \in Text /\ Len(t \o (u \o v)) = Len(t) + Len(u) + Len(v)
  <2>1. t \o u \in Text /\ u \o v \in Text  BY JoinIs
  <2>2. Len(t \o u) = Len(t) + Len(u) /\ Len(u \o v) = Len(u) + Len(v)  BY JoinIs
  <2>3. Len((t \o u) \o v) = Len(t \o u) + Len(v) /\ Len(t \o (u \o v)) = Len(t) + Len(u \o v)
    BY <2>1, JoinIs
  <2>4. Len(t) \in Nat /\ Len(u) \in Nat /\ Len(v) \in Nat  BY LettersOf
  <2>. QED  BY <2>1, <2>2, <2>3, <2>4, JoinIs
<1>2. (t \o u) \o v = t \o (u \o v)  BY DEF Text
<1>3. <<>> \o t = t /\ t \o <<>> = t  BY DEF Text
<1>. QED  BY <1>2, <1>3

LEMMA JoinAgain ==
  ASSUME NEW t \in Text, NEW u \in Text, NEW v \in Text
  PROVE  (t \o u) \o v = t \o (u \o v)
BY JoinsAre

Again(t, u, v) == (t \o u) \o v = t \o (u \o v)
LEMMA JoinedAgain ==
  ASSUME NEW t \in Text, NEW u \in Text, NEW v \in Text
  PROVE  Again(t, u, v)
BY JoinAgain, Zenon DEF Again

\* A text and what is dropped of it.
LEMMA DropJoin ==
  ASSUME NEW t \in Text, NEW u \in Text, NEW k \in 0..Len(t)
  PROVE  Drop(t \o u, k) = Drop(t, k) \o u
<1>. DEFINE w == t \o u
            d == Drop(t, k)
            l == Len(t)
            m == Len(u)
<1>1. l \in Nat /\ m \in Nat /\ k \in 0..l  BY LettersOf
<1>2. w \in Text /\ Len(w) = l + m /\ (\A i \in 1..l : w[i] = t[i]) /\ \A j \in 1..m : w[l + j] = u[j]
  BY JoinIs
<1>3. d \in Text /\ Len(d) = l - k /\ \A i \in 1..(l - k) : d[i] = t[k + i]
  BY DropIs
<1>4. Len(t) = l /\ Len(u) = m  OBVIOUS
<1>. HIDE DEF w, d, l, m
<1>5. k \in 0..Len(w) /\ Len(w) - k = l + m - k  BY <1>1, <1>2
<1>6. Drop(w, k) \in Text /\ Len(Drop(w, k)) = l + m - k /\ \A i \in 1..(l + m - k) : Drop(w, k)[i] = w[k + i]
  BY <1>2, <1>5, DropIs
<1>7. d \o u \in Text /\ Len(d \o u) = l + m - k /\ \A i \in 1..(l - k) : (d \o u)[i] = d[i]
  <2>1. d \o u \in Text /\ Len(d \o u) = Len(d) + Len(u) /\ \A i \in 1..Len(d) : (d \o u)[i] = d[i]
    BY <1>3, JoinIs
  <2>. QED  BY <1>1, <1>3, <1>4, <2>1
<1>8. \A j \in 1..m : (d \o u)[l - k + j] = u[j]
  <2>1. \A j \in 1..Len(u) : (d \o u)[Len(d) + j] = u[j]  BY <1>3, JoinIs
  <2>. QED  BY <1>3, <1>4, <2>1
<1>9. ASSUME NEW i \in 1..(l + m - k)
      PROVE  Drop(w, k)[i] = (d \o u)[i]
  <2>1. CASE i <= l - k
    <3>1. i \in 1..(l - k) /\ k + i \in 1..l  BY <1>1, <2>1
    <3>. QED  BY <1>2, <1>3, <1>6, <1>7, <3>1
  <2>2. CASE i > l - k
    <3>1. PICK j \in 1..m : k + i = l + j /\ i = l - k + j
      <4>1. i - (l - k) \in 1..m  BY <1>1, <2>2
      <4>2. k + i = l + (i - (l - k)) /\ i = l - k + (i - (l - k))  BY <1>1
      <4>. QED  BY <4>1, <4>2
    <3>2. Drop(w, k)[i] = u[j]  BY <1>2, <1>6, <3>1
    <3>3. (d \o u)[i] = u[j]  BY <1>8, <3>1
    <3>. QED  BY <3>2, <3>3
  <2>3. i <= l - k \/ i > l - k  BY <1>1
  <2>. QED  BY <2>1, <2>2, <2>3
<1>10. Drop(w, k) = d \o u  BY <1>6, <1>7, <1>9, SameText
<1>. QED  BY <1>10 DEF w, d

\* Among texts there is a shortest: induction over texts.
LEMMA ShortestText ==
  ASSUME NEW B, B \subseteq Text, B # {}
  PROVE  \E t \in B : \A u \in B : Len(t) <= Len(u)
<1>. DEFINE T == {Len(t) : t \in B}
<1>1. T \subseteq Nat /\ T # {}  BY LettersOf
<1>2. PICK n \in T : \A m \in T : n <= m
  <2>. HIDE DEF T
  <2>. QED  BY <1>1, LeastNumber
<1>. QED  BY <1>2

\* Where a word stands in a text.
LEMMA AtIs ==
  ASSUME NEW t \in Text, NEW s \in Words, NEW i \in Nat \ {0}
  PROVE  At(t, s, i) <=> i + Len(s) - 1 <= Len(t) /\ \A k \in 1..Len(s) : t[i + k - 1] = s[k]
<1>1. t \in Seq(Letters) /\ s \in Seq(Letters) /\ Len(s) \in Nat /\ Len(t) \in Nat  BY LettersAre DEF Text
<1>2. ASSUME i + Len(s) - 1 <= Len(t)
      PROVE  /\ SubSeq(t, i, i + Len(s) - 1) \in Text /\ Len(SubSeq(t, i, i + Len(s) - 1)) = Len(s)
             /\ \A k \in 1..Len(s) : SubSeq(t, i, i + Len(s) - 1)[k] = t[i + k - 1]
  <2>1. \A j \in i..(i + Len(s) - 1) : t[j] \in Letters  BY <1>1, <1>2
  <2>. QED  BY <1>1, <1>2, <2>1 DEF Text
<1>3. s \in Text  BY LettersAre
<1>4. CASE i + Len(s) - 1 <= Len(t)
  <2>1. SubSeq(t, i, i + Len(s) - 1) = s <=> \A k \in 1..Len(s) : t[i + k - 1] = s[k]
    BY <1>2, <1>3, <1>4, SameText
  <2>. QED  BY <1>4, <2>1 DEF At
<1>5. CASE ~(i + Len(s) - 1 <= Len(t))  BY <1>5 DEF At
<1>. QED  BY <1>4, <1>5

LEMMA WordIs ==
  ASSUME NEW s \in Words
  PROVE  s \in Text /\ Len(s) \in Nat \ {0} /\ \A k \in 1..Len(s) : s[k] \in Characters
<1>1. s \in Seq(Characters) /\ s # <<>>  BY DEF Words
<1>2. Len(s) # 0  BY <1>1
<1>. QED  BY <1>1, <1>2, LettersAre

-----------------------------------------------------------------------------
(* Masking one word: what is masked of a text is read off its first letter *)
(* and what follows.                                                       *)

Rest(t, s, g, i) ==
  IF i > Len(t) THEN <<>>
  ELSE IF At(t, s, i) THEN Mask \o g[i + Len(s)] ELSE <<t[i]>> \o g[i + 1]
Scan(t, s) == CHOOSE g : g = [i \in 1..(Len(t) + 1) |-> Rest(t, s, g, i)]

LEMMA MaskedIs ==
  ASSUME NEW t, NEW s
  PROVE  Masked(t, s) = Scan(t, s)[1]
BY DEF Masked, Scan, Rest

\* Where a word is found, it ends in the text.
LEMMA FoundIs ==
  ASSUME NEW t \in Text, NEW s \in Words, NEW i \in 1..Len(t), At(t, s, i)
  PROVE  Len(s) \in 1..(Len(t) + 1 - i)
<1>1. Len(t) \in Nat /\ i \in Nat \ {0}  BY LettersOf
<1>2. i + Len(s) - 1 <= Len(t)  BY <1>1, AtIs
<1>. QED  BY <1>1, <1>2, WordIs

\* One step of the pass needs only what comes behind it.
LEMMA RestNeeds ==
  ASSUME NEW t \in Text, NEW s \in Words, NEW i \in 1..(Len(t) + 1), NEW g, NEW h,
         \A j \in (i + 1)..(Len(t) + 1) : g[j] = h[j] /\ g[j] \in Text
  PROVE  Rest(t, s, g, i) = Rest(t, s, h, i) /\ Rest(t, s, g, i) \in Text
<1>0. Len(t) \in Nat  BY LettersOf
<1>1. CASE i > Len(t)  BY <1>1, LettersAre DEF Rest
<1>2. CASE ~(i > Len(t)) /\ At(t, s, i)
  <2>1. i \in 1..Len(t)  BY <1>0, <1>2
  <2>2. Len(s) \in 1..(Len(t) + 1 - i)  BY <1>2, <2>1, FoundIs
  <2>3. i + Len(s) \in (i + 1)..(Len(t) + 1)  BY <1>0, <2>1, <2>2
  <2>4. g[i + Len(s)] = h[i + Len(s)] /\ g[i + Len(s)] \in Text  BY <2>3
  <2>5. Mask \o g[i + Len(s)] \in Text  BY <2>4, LettersAre, JoinIs
  <2>. QED  BY <1>2, <2>4, <2>5 DEF Rest
<1>3. CASE ~(i > Len(t)) /\ ~At(t, s, i)
  <2>1. i \in 1..Len(t) /\ i + 1 \in (i + 1)..(Len(t) + 1)  BY <1>0, <1>3
  <2>2. g[i + 1] = h[i + 1] /\ g[i + 1] \in Text  BY <2>1
  <2>3. t[i] \in Letters  BY <2>1, LettersOf
  <2>4. <<t[i]>> \in Text  BY <2>3 DEF Text
  <2>5. <<t[i]>> \o g[i + 1] \in Text  BY <2>2, <2>4, JoinIs
  <2>. QED  BY <1>3, <2>2, <2>5 DEF Rest
<1>. QED  BY <1>1, <1>2, <1>3

\* A pass has an end: it goes through the text from its end.
LEMMA ScanExists ==
  ASSUME NEW t \in Text, NEW s \in Words
  PROVE  \E g \in [1..(Len(t) + 1) -> Text] : g = [i \in 1..(Len(t) + 1) |-> Rest(t, s, g, i)]
<1>. DEFINE l == Len(t)
            Bad == {k \in 0..l : ~\E g \in [(l + 1 - k)..(l + 1) -> Text] :
                                    \A i \in (l + 1 - k)..(l + 1) : g[i] = Rest(t, s, g, i)}
<1>0. l \in Nat  BY LettersOf
<1>1. Bad = {}
  <2>1. SUFFICES ASSUME Bad # {}  PROVE FALSE  OBVIOUS
  <2>2. PICK k \in Bad : \A m \in Bad : k <= m
    <3>1. Bad \subseteq Nat  BY <1>0
    <3>. HIDE DEF Bad
    <3>. QED  BY <2>1, <3>1, LeastNumber
  <2>3. k \in 0..l /\ k \in Nat
    <3>. HIDE DEF l
    <3>. QED  BY <1>0
  <2>. HIDE DEF l
  <2>4. CASE k = 0
    <3>. DEFINE g == [i \in (l + 1)..(l + 1) |-> <<>>]
    <3>1. g \in [(l + 1 - k)..(l + 1) -> Text]  BY <1>0, <2>4, LettersAre
    <3>2. \A i \in (l + 1 - k)..(l + 1) : i = l + 1 /\ g[i] = <<>>  BY <1>0, <2>4
    <3>. HIDE DEF g
    <3>3. Rest(t, s, g, l + 1) = <<>>  BY <1>0 DEF Rest, l
    <3>4. \A i \in (l + 1 - k)..(l + 1) : g[i] = Rest(t, s, g, i)  BY <3>2, <3>3
    <3>. QED  BY <2>2, <3>1, <3>4
  <2>5. CASE k # 0
    <3>. DEFINE m == l + 1 - k
    <3>1. k - 1 \in 0..l /\ ~(k <= k - 1) /\ l + 1 - (k - 1) = m + 1 /\ m \in 1..l  BY <1>0, <2>3, <2>5
    <3>2. k - 1 \notin Bad
      <4>. HIDE DEF Bad
      <4>. QED  BY <2>2, <3>1
    <3>3. PICK g \in [(m + 1)..(l + 1) -> Text] : \A i \in (m + 1)..(l + 1) : g[i] = Rest(t, s, g, i)
      <4>. HIDE DEF m
      <4>. QED  BY <3>1, <3>2
    <3>. DEFINE h == [i \in m..(l + 1) |-> IF i = m THEN Rest(t, s, g, m) ELSE g[i]]
    <3>4. l + 1 - k = m  OBVIOUS
    <3>. HIDE DEF m
    <3>5. \A i \in (m + 1)..(l + 1) : h[i] = g[i] /\ g[i] \in Text  BY <1>0, <3>1, <3>3
    <3>6. h[m] = Rest(t, s, g, m)  BY <1>0, <3>1
    <3>7. ASSUME NEW i \in m..(l + 1)
          PROVE  Rest(t, s, g, i) = Rest(t, s, h, i) /\ Rest(t, s, g, i) \in Text
      <4>. HIDE DEF h
      <4>1. i \in 1..(Len(t) + 1)  BY <1>0, <3>1 DEF l
      <4>2. \A j \in (i + 1)..(Len(t) + 1) : g[j] = h[j] /\ g[j] \in Text
        <5>1. \A j \in (i + 1)..(l + 1) : j \in (m + 1)..(l + 1)  BY <1>0, <3>1
        <5>. QED  BY <3>5, <5>1 DEF l
      <4>. QED  BY <4>1, <4>2, RestNeeds, ZenonT(40)
    <3>8. h \in [m..(l + 1) -> Text]
      <4>1. \A i \in m..(l + 1) : i = m \/ i \in (m + 1)..(l + 1)  BY <1>0, <3>1
      <4>2. m \in m..(l + 1)  BY <1>0, <3>1
      <4>. QED  BY <3>3, <3>7, <4>1, <4>2
    <3>. HIDE DEF h
    <3>9. \A i \in m..(l + 1) : h[i] = Rest(t, s, h, i)
      <4>1. TAKE i \in m..(l + 1)
      <4>2. i = m \/ i \in (m + 1)..(l + 1)  BY <1>0, <3>1
      <4>3. h[i] = Rest(t, s, g, i)  BY <3>3, <3>5, <3>6, <4>2
      <4>. QED  BY <3>7, <4>3
    <3>. QED  BY <2>2, <3>4, <3>8, <3>9
  <2>. QED  BY <2>4, <2>5
<1>2. l \in 0..l /\ l + 1 - l = 1  BY <1>0
<1>3. PICK g \in [(l + 1 - l)..(l + 1) -> Text] : \A i \in (l + 1 - l)..(l + 1) : g[i] = Rest(t, s, g, i)
  <2>. HIDE DEF l
  <2>. QED  BY <1>1, <1>2
<1>4. g \in [1..(l + 1) -> Text] /\ g = [i \in 1..(l + 1) |-> Rest(t, s, g, i)]
  <2>. HIDE DEF l
  <2>. QED  BY <1>2, <1>3
<1>. QED  BY <1>4

LEMMA ScanIs ==
  ASSUME NEW t \in Text, NEW s \in Words
  PROVE  /\ Scan(t, s) \in [1..(Len(t) + 1) -> Text]
         /\ \A i \in 1..(Len(t) + 1) : Scan(t, s)[i] = Rest(t, s, Scan(t, s), i)
<1>1. PICK h \in [1..(Len(t) + 1) -> Text] : h = [i \in 1..(Len(t) + 1) |-> Rest(t, s, h, i)]
  BY ScanExists
<1>. DEFINE g == Scan(t, s)
            l == Len(t) + 1
<1>2. g = [i \in 1..(Len(t) + 1) |-> Rest(t, s, g, i)]  BY <1>1 DEF Scan
<1>0. l \in Nat \ {0} /\ l = Len(t) + 1  BY LettersOf
<1>. HIDE DEF g, l
<1>3. \A i \in 1..l : g[i] = Rest(t, s, g, i)  BY <1>0, <1>2
<1>4. \A i \in 1..l : h[i] = Rest(t, s, h, i) /\ h[i] \in Text  BY <1>0, <1>1
<1>. DEFINE Bad == {k \in 0..(l - 1) : g[l - k] # h[l - k]}
<1>5. Bad = {}
  <2>1. SUFFICES ASSUME Bad # {}  PROVE FALSE  OBVIOUS
  <2>2. PICK k \in Bad : \A m \in Bad : k <= m
    <3>1. Bad \subseteq Nat  BY <1>0
    <3>. HIDE DEF Bad
    <3>. QED  BY <2>1, <3>1, LeastNumber
  <2>3. k \in 0..(l - 1) /\ g[l - k] # h[l - k] /\ l - k \in 1..l  BY <1>0
  <2>4. ASSUME NEW j \in (l - k + 1)..l
        PROVE  g[j] = h[j] /\ h[j] \in Text
    <3>1. l - j \in 0..(l - 1) /\ ~(k <= l - j) /\ l - (l - j) = j /\ j \in 1..l  BY <1>0, <2>3
    <3>2. l - j \notin Bad
      <4>. HIDE DEF Bad
      <4>. QED  BY <2>2, <3>1
    <3>3. g[l - (l - j)] = h[l - (l - j)]  BY <3>1, <3>2
    <3>. QED  BY <1>4, <3>1, <3>3
  <2>5. Rest(t, s, h, l - k) = Rest(t, s, g, l - k)  BY <1>0, <2>3, <2>4, RestNeeds
  <2>. QED  BY <1>3, <1>4, <2>3, <2>5
<1>6. ASSUME NEW i \in 1..l
      PROVE  g[i] = h[i]
  <2>1. l - i \in 0..(l - 1) /\ l - (l - i) = i  BY <1>0
  <2>. HIDE DEF Bad
  <2>2. l - i \notin Bad  BY <1>5
  <2>. QED  BY <2>1, <2>2 DEF Bad
<1>7. g \in [1..l -> Text]  BY <1>0, <1>2, <1>4, <1>6
<1>. QED  BY <1>0, <1>3, <1>7 DEF g

\* A word is found in a text where it is found behind what is dropped of it.
LEMMA AtDrop ==
  ASSUME NEW t \in Text, NEW s \in Words, NEW k \in 0..Len(t), NEW i \in 1..(Len(t) - k)
  PROVE  At(Drop(t, k), s, i) <=> At(t, s, k + i)
<1>. DEFINE d == Drop(t, k)
<1>1. Len(t) \in Nat /\ Len(s) \in Nat  BY LettersOf, WordIs
<1>2. d \in Text /\ Len(d) = Len(t) - k /\ \A j \in 1..(Len(t) - k) : d[j] = t[k + j]  BY DropIs
<1>. HIDE DEF d
<1>3. At(d, s, i) <=> i + Len(s) - 1 <= Len(d) /\ \A n \in 1..Len(s) : d[i + n - 1] = s[n]
  <2>1. i \in Nat \ {0}  BY <1>1
  <2>. QED  BY <1>2, <2>1, AtIs, ZenonT(40)
<1>4. At(t, s, k + i) <=> k + i + Len(s) - 1 <= Len(t) /\ \A n \in 1..Len(s) : t[k + i + n - 1] = s[n]
  <2>1. k + i \in Nat \ {0}  BY <1>1
  <2>. QED  BY <2>1, AtIs
<1>5. i + Len(s) - 1 <= Len(d) <=> k + i + Len(s) - 1 <= Len(t)  BY <1>1, <1>2
<1>6. ASSUME i + Len(s) - 1 <= Len(d), NEW n \in 1..Len(s)
      PROVE  d[i + n - 1] = t[k + i + n - 1]
  <2>1. i + n - 1 \in 1..(Len(t) - k) /\ k + (i + n - 1) = k + i + n - 1  BY <1>1, <1>2, <1>6
  <2>. QED  BY <1>2, <2>1
<1>7. At(d, s, i) <=> At(t, s, k + i)
  <2>1. CASE i + Len(s) - 1 <= Len(d)  BY <1>3, <1>4, <1>5, <1>6, <2>1
  <2>2. CASE ~(i + Len(s) - 1 <= Len(d))  BY <1>3, <1>4, <1>5, <2>2
  <2>. QED  BY <2>1, <2>2
<1>. QED  BY <1>7 DEF d

\* What is masked behind a place is what is behind it, masked.
LEMMA ScanDrop ==
  ASSUME NEW t \in Text, NEW s \in Words, NEW k \in 0..Len(t)
  PROVE  Scan(t, s)[k + 1] = Masked(Drop(t, k), s)
<1>. DEFINE l == Len(t)
            d == Drop(t, k)
            g == Scan(t, s)
            h == Scan(d, s)
            Bad == {j \in 0..(l - k) : g[l + 1 - j] # h[l + 1 - j - k]}
<1>1. l \in Nat /\ k \in 0..l /\ Len(t) = l  BY LettersOf
<1>2. d \in Text /\ Len(d) = l - k /\ \A i \in 1..(l - k) : d[i] = t[k + i]  BY DropIs
<1>3. g \in [1..(l + 1) -> Text] /\ \A i \in 1..(l + 1) : g[i] = Rest(t, s, g, i)  BY ScanIs
<1>4. \A i \in 1..(Len(d) + 1) : h[i] = Rest(d, s, h, i)
  <2>. HIDE DEF d
  <2>. QED  BY <1>2, ScanIs
<1>5. \A i \in 1..(l - k) : At(d, s, i) <=> At(t, s, k + i)  BY AtDrop
<1>6. Masked(d, s) = h[1]  BY MaskedIs
<1>. HIDE DEF l, d, g, h
<1>7. Bad = {}
  <2>1. SUFFICES ASSUME Bad # {}  PROVE FALSE  OBVIOUS
  <2>2. PICK j \in Bad : \A m \in Bad : j <= m
    <3>1. Bad \subseteq Nat  BY <1>1
    <3>. HIDE DEF Bad
    <3>. QED  BY <2>1, <3>1, LeastNumber
  <2>. DEFINE i == l + 1 - j
  <2>3. j \in 0..(l - k) /\ g[i] # h[i - k]
    <3>1. j \in 0..(l - k) /\ g[l + 1 - j] # h[l + 1 - j - k]  BY <2>2
    <3>. QED  BY <1>1, <3>1
  <2>4. i \in (k + 1)..(l + 1) /\ i \in 1..(l + 1) /\ i - k \in 1..(Len(d) + 1)  BY <1>1, <1>2, <2>3
  <2>5. ASSUME NEW n \in (i + 1)..(l + 1)
        PROVE  g[n] = h[n - k]
    <3>1. l + 1 - n \in 0..(l - k) /\ ~(j <= l + 1 - n) /\ l + 1 - (l + 1 - n) = n  BY <1>1, <2>3
    <3>2. l + 1 - n \notin Bad
      <4>. HIDE DEF Bad
      <4>. QED  BY <2>2, <3>1
    <3>3. g[l + 1 - (l + 1 - n)] = h[l + 1 - (l + 1 - n) - k]  BY <3>1, <3>2
    <3>. QED  BY <1>1, <2>3, <3>1, <3>3
  <2>. HIDE DEF i, Bad
  <2>6. g[i] = Rest(t, s, g, i) /\ h[i - k] = Rest(d, s, h, i - k)  BY <1>3, <1>4, <2>4
  <2>7. CASE i > l
    <3>1. i - k > Len(d)  BY <1>1, <1>2, <2>4, <2>7
    <3>. QED  BY <1>1, <2>3, <2>6, <2>7, <3>1 DEF Rest
  <2>8. CASE i <= l
    <3>1. i \in 1..l /\ i - k \in 1..(l - k) /\ ~(i > l) /\ ~(i - k > Len(d)) /\ k + (i - k) = i
      BY <1>1, <1>2, <2>4, <2>8
    <3>2. At(d, s, i - k) <=> At(t, s, i)  BY <1>5, <3>1
    <3>3. d[i - k] = t[i]  BY <1>2, <3>1
    <3>4. CASE At(t, s, i)
      <4>1. Len(s) \in 1..(l + 1 - i)  BY <1>1, <3>1, <3>4, FoundIs
      <4>2. PICK n \in (i + 1)..(l + 1) : n = i + Len(s) /\ n - k = (i - k) + Len(s)
        <5>1. i + Len(s) \in (i + 1)..(l + 1) /\ i + Len(s) - k = (i - k) + Len(s)  BY <1>1, <2>4, <4>1
        <5>. QED  BY <1>1, <2>4, <4>1, <5>1
      <4>3. g[i + Len(s)] = h[(i - k) + Len(s)]  BY <2>5, <4>2
      <4>. QED  BY <1>1, <2>3, <2>6, <3>1, <3>2, <3>4, <4>3 DEF Rest
    <3>5. CASE ~At(t, s, i)
      <4>1. PICK n \in (i + 1)..(l + 1) : n = i + 1 /\ n - k = (i - k) + 1
        <5>1. i + 1 \in (i + 1)..(l + 1) /\ i + 1 - k = (i - k) + 1  BY <1>1, <3>1
        <5>. QED  BY <1>1, <2>4, <5>1
      <4>2. g[i + 1] = h[(i - k) + 1]  BY <2>5, <4>1
      <4>. QED  BY <1>1, <2>3, <2>6, <3>1, <3>2, <3>3, <3>5, <4>2 DEF Rest
    <3>. QED  BY <3>4, <3>5
  <2>9. i > l \/ i <= l  BY <1>1, <2>4
  <2>. QED  BY <2>7, <2>8, <2>9
<1>8. l - k \in 0..(l - k) /\ l + 1 - (l - k) = k + 1 /\ l + 1 - (l - k) - k = 1  BY <1>1
<1>9. g[k + 1] = h[1]  BY <1>7, <1>8
<1>10. Masked(d, s) = g[k + 1]  BY <1>6, <1>9
<1>. QED  BY <1>10 DEF g, d

\* What masking does with the beginning of a text.
LEMMA MaskedStep ==
  ASSUME NEW t \in Text, NEW s \in Words
  PROVE  /\ Masked(t, s) \in Text
         /\ t = <<>> => Masked(t, s) = <<>>
         /\ t # <<>> /\ At(t, s, 1) =>
              Len(s) \in 1..Len(t) /\ Masked(t, s) = Mask \o Masked(Drop(t, Len(s)), s)
         /\ t # <<>> /\ ~At(t, s, 1) => Masked(t, s) = <<t[1]>> \o Masked(Drop(t, 1), s)
<1>1. Len(t) \in Nat /\ 1 \in 1..(Len(t) + 1) /\ (t # <<>> => Len(t) # 0)  BY LettersOf DEF Text
<1>2. Masked(t, s) = Scan(t, s)[1] /\ Scan(t, s)[1] \in Text
  <2>1. Scan(t, s)[1] \in Text  BY <1>1, ScanIs
  <2>. QED  BY <2>1, MaskedIs
<1>3. Scan(t, s)[1] = Rest(t, s, Scan(t, s), 1)  BY <1>1, ScanIs
<1>4. ASSUME t = <<>>
      PROVE  Masked(t, s) = <<>>
  <2>1. 1 > Len(t)  BY <1>4
  <2>. QED  BY <1>2, <1>3, <2>1 DEF Rest
<1>5. ASSUME t # <<>>, At(t, s, 1)
      PROVE  Len(s) \in 1..Len(t) /\ Masked(t, s) = Mask \o Masked(Drop(t, Len(s)), s)
  <2>1. ~(1 > Len(t)) /\ 1 \in 1..Len(t)  BY <1>1, <1>5
  <2>2. Len(s) \in 1..(Len(t) + 1 - 1)  BY <1>5, <2>1, FoundIs
  <2>3. Len(s) \in 0..Len(t) /\ Len(s) \in 1..Len(t) /\ 1 + Len(s) = Len(s) + 1  BY <1>1, <2>2
  <2>4. Scan(t, s)[1 + Len(s)] = Masked(Drop(t, Len(s)), s)  BY <2>3, ScanDrop
  <2>. QED  BY <1>2, <1>3, <1>5, <2>1, <2>3, <2>4 DEF Rest
<1>6. ASSUME t # <<>>, ~At(t, s, 1)
      PROVE  Masked(t, s) = <<t[1]>> \o Masked(Drop(t, 1), s)
  <2>1. ~(1 > Len(t)) /\ 1 \in 0..Len(t)  BY <1>1, <1>6
  <2>2. Scan(t, s)[1 + 1] = Masked(Drop(t, 1), s)  BY <2>1, ScanDrop
  <2>. QED  BY <1>2, <1>3, <1>6, <2>1, <2>2 DEF Rest
<1>. QED  BY <1>2, <1>4, <1>5, <1>6

-----------------------------------------------------------------------------
(* More on texts that are cut and joined.                                  *)

Take(t, k) == SubSeq(t, 1, k)

LEMMA TakeIs ==
  ASSUME NEW t \in Text, NEW k \in 0..Len(t)
  PROVE  Take(t, k) \in Text /\ Len(Take(t, k)) = k /\ \A i \in 1..k : Take(t, k)[i] = t[i]
<1>1. Len(t) \in Nat /\ t \in Seq(Letters)  BY DEF Text
<1>2. Take(t, k) \in Seq(Letters)
  <2>1. \A i \in 1..k : t[i] \in Letters  BY <1>1
  <2>. QED  BY <1>1, <2>1 DEF Take
<1>. QED  BY <1>1, <1>2 DEF Take, Text

\* What is cut in two is joined again.
LEMMA TakeDrop ==
  ASSUME NEW t \in Text, NEW k \in 0..Len(t)
  PROVE  Take(t, k) \o Drop(t, k) = t
<1>. DEFINE a == Take(t, k)
            d == Drop(t, k)
            l == Len(t)
<1>1. l \in Nat /\ Len(t) = l /\ k \in 0..l  BY LettersOf
<1>2. a \in Text /\ Len(a) = k /\ \A i \in 1..k : a[i] = t[i]  BY TakeIs
<1>3. d \in Text /\ Len(d) = l - k /\ \A i \in 1..(l - k) : d[i] = t[k + i]  BY DropIs
<1>. HIDE DEF a, d, l
<1>4. a \o d \in Text /\ Len(a \o d) = l /\ (\A i \in 1..k : (a \o d)[i] = a[i])
      /\ \A i \in 1..(l - k) : (a \o d)[k + i] = d[i]
  <2>1. /\ a \o d \in Text /\ Len(a \o d) = Len(a) + Len(d)
        /\ \A i \in 1..Len(a) : (a \o d)[i] = a[i]
        /\ \A i \in 1..Len(d) : (a \o d)[Len(a) + i] = d[i]
    BY <1>2, <1>3, JoinIs
  <2>2. Len(a) + Len(d) = l  BY <1>1, <1>2, <1>3
  <2>. QED  BY <1>2, <1>3, <2>1, <2>2
<1>5. ASSUME NEW i \in 1..l
      PROVE  (a \o d)[i] = t[i]
  <2>1. CASE i <= k
    <3>1. i \in 1..k  BY <2>1
    <3>. QED  BY <1>2, <1>4, <3>1
  <2>2. CASE i > k
    <3>1. i - k \in 1..(l - k) /\ k + (i - k) = i  BY <1>1, <2>2
    <3>. QED  BY <1>3, <1>4, <3>1
  <2>3. i <= k \/ i > k  BY <1>1
  <2>. QED  BY <2>1, <2>2, <2>3
<1>6. a \o d = t  BY <1>1, <1>4, <1>5, SameText
<1>. QED  BY <1>6 DEF a, d

LEMMA HeadTail ==
  ASSUME NEW t \in Text, t # <<>>
  PROVE  /\ 1 \in 0..Len(t) /\ 1 \in 1..Len(t) /\ <<t[1]>> \in Text /\ Len(<<t[1]>>) = 1
         /\ <<t[1]>> \o Drop(t, 1) = t
<1>1. Len(t) \in Nat /\ Len(t) # 0 /\ 1 \in 0..Len(t) /\ 1 \in 1..Len(t)  BY DEF Text
<1>2. t[1] \in Letters  BY <1>1, LettersOf
<1>3. <<t[1]>> \in Text /\ Len(<<t[1]>>) = 1 /\ <<t[1]>>[1] = t[1]  BY <1>2 DEF Text
<1>4. Take(t, 1) \in Text /\ Len(Take(t, 1)) = 1 /\ Take(t, 1)[1] = t[1]
  <2>1. 1 \in 1..1  OBVIOUS
  <2>. QED  BY <1>1, <2>1, TakeIs
<1>5. Take(t, 1) = <<t[1]>>
  <2>1. \A i \in 1..1 : i = 1  OBVIOUS
  <2>2. \A i \in 1..1 : Take(t, 1)[i] = <<t[1]>>[i]  BY <1>3, <1>4, <2>1
  <2>. QED  BY <1>3, <1>4, <2>2, SameText
<1>. QED  BY <1>1, <1>3, <1>5, TakeDrop

\* What is dropped of a text that was joined to another.
LEMMA DropFirst ==
  ASSUME NEW t \in Text, NEW u \in Text
  PROVE  Drop(t \o u, Len(t)) = u
<1>1. Len(t) \in 0..Len(t) /\ Len(t) - Len(t) = 0  BY LettersOf
<1>2. Drop(t \o u, Len(t)) = Drop(t, Len(t)) \o u  BY <1>1, DropJoin
<1>3. Drop(t, Len(t)) \in Text /\ Len(Drop(t, Len(t))) = 0  BY <1>1, DropIs
<1>4. Drop(t, Len(t)) = <<>>  BY <1>3 DEF Text
<1>. QED  BY <1>2, <1>4, JoinsAre

LEMMA Cancelled ==
  ASSUME NEW t \in Text, NEW u \in Text, NEW v \in Text, v \o t = u \o t
  PROVE  u = v
<1>1. Len(t) \in Nat /\ Len(u) \in Nat /\ Len(v) \in Nat  BY LettersOf
<1>2. Len(v \o t) = Len(v) + Len(t) /\ \A i \in 1..Len(v) : (v \o t)[i] = v[i]  BY JoinIs
<1>3. Len(u \o t) = Len(u) + Len(t) /\ \A i \in 1..Len(u) : (u \o t)[i] = u[i]  BY JoinIs
<1>4. Len(u) = Len(v)  BY <1>1, <1>2, <1>3
<1>5. \A i \in 1..Len(u) : u[i] = v[i]  BY <1>2, <1>3, <1>4
<1>. QED  BY <1>4, <1>5, SameText

\* A word is found behind a text where it is found in what is joined to it.
LEMMA AtJoin ==
  ASSUME NEW t \in Text, NEW u \in Text, NEW s \in Words, NEW i \in 1..Len(u)
  PROVE  At(u, s, i) <=> At(t \o u, s, Len(t) + i)
<1>1. t \o u \in Text /\ Len(t \o u) = Len(t) + Len(u) /\ Len(t) \in Nat /\ Len(u) \in Nat
  BY JoinIs, LettersOf
<1>2. Len(t) \in 0..Len(t \o u) /\ i \in 1..(Len(t \o u) - Len(t))  BY <1>1
<1>3. Drop(t \o u, Len(t)) = u  BY DropFirst
<1>. QED  BY <1>1, <1>2, <1>3, AtDrop

\* And where it stands in the text that another is joined to, it is found there.
LEMMA AtFront ==
  ASSUME NEW t \in Text, NEW u \in Text, NEW s \in Words, NEW i \in Nat \ {0}, i + Len(s) - 1 <= Len(t)
  PROVE  At(t, s, i) <=> At(t \o u, s, i)
<1>1. t \o u \in Text /\ Len(t \o u) = Len(t) + Len(u) /\ Len(t) \in Nat /\ Len(u) \in Nat /\ Len(s) \in Nat
  BY JoinIs, LettersOf, WordIs
<1>2. At(t, s, i) <=> i + Len(s) - 1 <= Len(t) /\ \A k \in 1..Len(s) : t[i + k - 1] = s[k]  BY AtIs
<1>3. At(t \o u, s, i) <=> i + Len(s) - 1 <= Len(t \o u) /\ \A k \in 1..Len(s) : (t \o u)[i + k - 1] = s[k]
  BY <1>1, AtIs
<1>4. \A k \in 1..Len(s) : (t \o u)[i + k - 1] = t[i + k - 1]
  <2>1. \A k \in 1..Len(s) : i + k - 1 \in 1..Len(t)  BY <1>1
  <2>. QED  BY <2>1, JoinIs
<1>5. i + Len(s) - 1 <= Len(t \o u)  BY <1>1
<1>. QED  BY <1>2, <1>3, <1>4, <1>5

\* A word that occurs in a part of a text occurs in it.
LEMMA OccursJoined ==
  ASSUME NEW t \in Text, NEW u \in Text, NEW s \in Words, Occurs(s, t) \/ Occurs(s, u)
  PROVE  Occurs(s, t \o u)
<1>1. /\ t \o u \in Text /\ Len(t \o u) = Len(t) + Len(u) /\ Len(t) \in Nat /\ Len(u) \in Nat
      /\ DOMAIN t = 1..Len(t) /\ DOMAIN u = 1..Len(u)
  BY JoinIs, LettersOf
<1>2. DOMAIN (t \o u) = 1..(Len(t) + Len(u))  BY <1>1, LettersOf
<1>3. CASE Occurs(s, t)
  <2>1. PICK i \in 1..Len(t) : At(t, s, i)  BY <1>1, <1>3 DEF Occurs
  <2>2. Len(s) \in 1..(Len(t) + 1 - i)  BY <2>1, FoundIs
  <2>3. i + Len(s) - 1 <= Len(t) /\ i \in Nat \ {0} /\ i \in 1..(Len(t) + Len(u))  BY <1>1, <2>2
  <2>4. At(t \o u, s, i)  BY <2>1, <2>3, AtFront
  <2>. QED  BY <1>2, <2>3, <2>4 DEF Occurs
<1>4. CASE Occurs(s, u)
  <2>1. PICK i \in 1..Len(u) : At(u, s, i)  BY <1>1, <1>4 DEF Occurs
  <2>2. At(t \o u, s, Len(t) + i)  BY <2>1, AtJoin
  <2>3. Len(t) + i \in 1..(Len(t) + Len(u))  BY <1>1
  <2>. QED  BY <1>2, <2>2, <2>3 DEF Occurs
<1>. QED  BY <1>3, <1>4

\* A word does not occur in a text that is shorter.
LEMMA TooShort ==
  ASSUME NEW t \in Text, NEW s \in Words, Len(t) < Len(s)
  PROVE  ~Occurs(s, t)
<1>1. SUFFICES ASSUME Occurs(s, t)  PROVE FALSE  OBVIOUS
<1>2. PICK i \in 1..Len(t) : At(t, s, i)  BY <1>1, LettersOf DEF Occurs
<1>3. Len(s) \in 1..(Len(t) + 1 - i)  BY <1>2, FoundIs
<1>. QED  BY <1>3, LettersOf

\* What a mask, or one letter, is put in front of.
LEMMA MaskJoin ==
  ASSUME NEW u \in Text
  PROVE  /\ Mask \o u \in Text /\ Len(Mask \o u) = 2 + Len(u)
         /\ (Mask \o u)[1] = "[" /\ (Mask \o u)[2] = "]"
         /\ \A i \in 1..Len(u) : (Mask \o u)[2 + i] = u[i]
<1>1. Mask \in Text /\ Len(Mask) = 2 /\ Mask[1] = "[" /\ Mask[2] = "]"  BY LettersAre
<1>. DEFINE k == Mask
            v == k \o u
<1>2. k \in Text /\ Len(k) = 2 /\ k[1] = "[" /\ k[2] = "]"  BY <1>1
<1>. HIDE DEF k
<1>3. /\ v \in Text /\ Len(v) = Len(k) + Len(u)
      /\ \A i \in 1..Len(k) : v[i] = k[i]
      /\ \A i \in 1..Len(u) : v[Len(k) + i] = u[i]
  BY <1>2, JoinIs
<1>. HIDE DEF v
<1>4. 1 \in 1..Len(k) /\ 2 \in 1..Len(k)  BY <1>2
<1>5. v \in Text /\ Len(v) = 2 + Len(u) /\ v[1] = "[" /\ v[2] = "]" /\ \A i \in 1..Len(u) : v[2 + i] = u[i]
  BY <1>2, <1>3, <1>4
<1>. QED  BY <1>5 DEF v, k

LEMMA LetterJoin ==
  ASSUME NEW h \in Text, Len(h) = 1, NEW u \in Text
  PROVE  /\ h \o u \in Text /\ Len(h \o u) = 1 + Len(u) /\ (h \o u)[1] = h[1]
         /\ \A i \in 1..Len(u) : (h \o u)[1 + i] = u[i]
<1>. DEFINE v == h \o u
<1>1. /\ v \in Text /\ Len(v) = Len(h) + Len(u)
      /\ \A i \in 1..Len(h) : v[i] = h[i]
      /\ \A i \in 1..Len(u) : v[Len(h) + i] = u[i]
  BY JoinIs
<1>. HIDE DEF v
<1>2. 1 \in 1..Len(h)  OBVIOUS
<1>3. v \in Text /\ Len(v) = 1 + Len(u) /\ v[1] = h[1] /\ \A i \in 1..Len(u) : v[1 + i] = u[i]
  BY <1>1, <1>2
<1>. QED  BY <1>3 DEF v

-----------------------------------------------------------------------------
(* What masking one word keeps of a text.                                  *)

Plain == Seq(Characters)

LEMMA PlainIs ==
  /\ Plain \subseteq Text
  /\ \A c \in Plain : \A k \in 1..Len(c) : c[k] \in Characters
  /\ \A c \in Plain : \A k \in 0..Len(c) : Drop(c, k) \in Plain
<1>1. Characters \subseteq Letters  BY LettersAre
<1>2. ASSUME NEW c \in Plain, NEW k \in 0..Len(c)
      PROVE  Drop(c, k) \in Plain
  <2>1. \A i \in (k + 1)..Len(c) : c[i] \in Characters  BY <1>2 DEF Plain
  <2>. QED  BY <1>2, <2>1 DEF Plain, Drop
<1>. QED  BY <1>1, <1>2 DEF Plain, Text

\* How u begins, up to a letter of the mask, t begins; and if none is in u, u is t.
PlainTo(u, n) == \A k \in 1..n : u[k] \in Characters
PlainFront(u, t) ==
  \A n \in 0..Len(u) : PlainTo(u, n) =>
    n <= Len(t) /\ (\A k \in 1..n : u[k] = t[k]) /\ (n = Len(u) => n = Len(t))

LEMMA FrontMoves ==
  ASSUME NEW t \in Text, NEW u \in Text, NEW v \in Text, PlainFront(v, u), PlainFront(u, t)
  PROVE  PlainFront(v, t)
<1>1. SUFFICES ASSUME NEW n \in 0..Len(v), PlainTo(v, n)
               PROVE  n <= Len(t) /\ (\A k \in 1..n : v[k] = t[k]) /\ (n = Len(v) => n = Len(t))
  BY DEF PlainFront
<1>2. n <= Len(u) /\ (\A k \in 1..n : v[k] = u[k]) /\ (n = Len(v) => n = Len(u))  BY <1>1 DEF PlainFront
<1>3. n \in 0..Len(u) /\ PlainTo(u, n)  BY <1>1, <1>2, LettersOf DEF PlainTo
<1>4. n <= Len(t) /\ (\A k \in 1..n : u[k] = t[k]) /\ (n = Len(u) => n = Len(t))  BY <1>3 DEF PlainFront
<1>. QED  BY <1>2, <1>4

\* A text that begins with a letter of the mask has no plain beginning.
LEMMA MaskedFirst ==
  ASSUME NEW u \in Text, NEW n \in Nat, PlainTo(Mask \o u, n)
  PROVE  n = 0
<1>1. 1 \in 1..Len(Mask) /\ Mask \in Text /\ Mask[1] \notin Characters  BY LettersAre
<1>2. (Mask \o u)[1] = Mask[1]  BY <1>1, JoinIs
<1>. QED  BY <1>1, <1>2 DEF PlainTo

LEMMA MaskFront ==
  ASSUME NEW t \in Text, NEW s \in Words
  PROVE  PlainFront(Masked(t, s), t)
<1>. DEFINE Bad == {u \in Text : ~PlainFront(Masked(u, s), u)}
<1>1. SUFFICES ASSUME Bad # {}  PROVE FALSE  OBVIOUS
<1>2. PICK b \in Bad : \A u \in Bad : Len(b) <= Len(u)
  <2>1. Bad \subseteq Text  OBVIOUS
  <2>. HIDE DEF Bad
  <2>. QED  BY <1>1, <2>1, ShortestText
<1>3. b \in Text /\ ~PlainFront(Masked(b, s), b)  BY <1>2
<1>4. \A u \in Text : Len(u) < Len(b) => PlainFront(Masked(u, s), u)
  <2>1. \A u \in Text : Len(u) \in Nat /\ Len(b) \in Nat  BY <1>3, LettersOf
  <2>. QED  BY <1>2, <2>1
<1>. HIDE DEF Bad
<1>5. PICK n \in 0..Len(Masked(b, s)) :
        /\ PlainTo(Masked(b, s), n)
        /\ ~(n <= Len(b) /\ (\A k \in 1..n : Masked(b, s)[k] = b[k])
               /\ (n = Len(Masked(b, s)) => n = Len(b)))
  BY <1>3 DEF PlainFront
<1>0. Len(b) \in Nat /\ n \in Nat  BY <1>3, <1>5, LettersOf
<1>6. b # <<>>
  <2>1. SUFFICES ASSUME b = <<>>  PROVE FALSE  OBVIOUS
  <2>2. Masked(b, s) = <<>> /\ Len(b) = 0  BY <1>3, <2>1, MaskedStep
  <2>. QED  BY <1>5, <2>2
<1>7. CASE At(b, s, 1)
  <2>1. Len(s) \in 1..Len(b) /\ Masked(b, s) = Mask \o Masked(Drop(b, Len(s)), s)
    BY <1>3, <1>6, <1>7, MaskedStep
  <2>2. Drop(b, Len(s)) \in Text  BY <1>0, <1>3, <2>1, DropIs
  <2>3. Masked(Drop(b, Len(s)), s) \in Text  BY <2>2, MaskedStep
  <2>4. n = 0  BY <1>0, <1>5, <2>1, <2>3, MaskedFirst
  <2>5. Len(Masked(b, s)) = 2 + Len(Masked(Drop(b, Len(s)), s))
    <3>1. Len(Mask \o Masked(Drop(b, Len(s)), s)) = 2 + Len(Masked(Drop(b, Len(s)), s))  BY <2>3, MaskJoin
    <3>. QED  BY <2>1, <3>1, Zenon
  <2>6. Len(Masked(Drop(b, Len(s)), s)) \in Nat  BY <2>3, LettersOf
  <2>. QED  BY <1>0, <1>5, <2>4, <2>5, <2>6
<1>8. CASE ~At(b, s, 1)
  <2>. DEFINE d == Drop(b, 1)
              h == <<b[1]>>
              m == Masked(d, s)
  <2>1. Masked(b, s) = h \o m  BY <1>3, <1>6, <1>8, MaskedStep
  <2>2. h \in Text /\ Len(h) = 1 /\ h[1] = b[1] /\ 1 \in 0..Len(b)  BY <1>3, <1>6, HeadTail
  <2>3. d \in Text /\ Len(d) = Len(b) - 1 /\ \A i \in 1..(Len(b) - 1) : d[i] = b[1 + i]
    BY <1>3, <2>2, DropIs
  <2>. HIDE DEF d
  <2>4. m \in Text /\ PlainFront(m, d)
    <3>1. Len(d) < Len(b)  BY <1>0, <2>3
    <3>. QED  BY <1>4, <2>3, <3>1, MaskedStep
  <2>. HIDE DEF h, m
  <2>5. /\ Len(h \o m) = 1 + Len(m) /\ (h \o m)[1] = b[1] /\ Len(m) \in Nat
        /\ \A i \in 1..Len(m) : (h \o m)[1 + i] = m[i]
    <3>1. Len(m) \in Nat  BY <2>4, LettersOf
    <3>2. /\ Len(h \o m) = 1 + Len(m) /\ (h \o m)[1] = h[1]
          /\ \A i \in 1..Len(m) : (h \o m)[1 + i] = m[i]
      BY <2>2, <2>4, LetterJoin
    <3>. QED  BY <2>2, <3>1, <3>2, Zenon
  <2>6. CASE n = 0  BY <1>0, <1>5, <2>1, <2>5, <2>6
  <2>7. CASE n # 0
    <3>1. n - 1 \in 0..Len(m)  BY <1>0, <1>5, <2>1, <2>5, <2>7
    <3>2. PlainTo(m, n - 1)
      <4>1. \A k \in 1..(n - 1) : 1 + k \in 1..n /\ k \in 1..Len(m)  BY <1>0, <3>1
      <4>. QED  BY <1>5, <2>1, <2>5, <4>1 DEF PlainTo
    <3>3. n - 1 <= Len(d) /\ (\A k \in 1..(n - 1) : m[k] = d[k]) /\ (n - 1 = Len(m) => n - 1 = Len(d))
      BY <2>4, <3>1, <3>2 DEF PlainFront
    <3>4. n <= Len(b) /\ (n = Len(Masked(b, s)) => n = Len(b))
      BY <1>0, <2>1, <2>3, <2>5, <3>1, <3>3
    <3>5. \A k \in 1..n : Masked(b, s)[k] = b[k]
      <4>1. TAKE k \in 1..n
      <4>2. CASE k = 1  BY <2>1, <2>5, <4>2
      <4>3. CASE k # 1
        <5>1. PICK j \in 1..(n - 1) : k = 1 + j
          <6>1. k - 1 \in 1..(n - 1) /\ k = 1 + (k - 1)  BY <1>0, <4>3
          <6>. QED  BY <6>1
        <5>2. j \in 1..Len(m) /\ j \in 1..(Len(b) - 1)  BY <1>0, <2>3, <3>1, <3>3
        <5>. QED  BY <2>1, <2>3, <2>5, <3>3, <5>1, <5>2
      <4>. QED  BY <4>2, <4>3
    <3>. QED  BY <1>5, <3>4, <3>5
  <2>. QED  BY <2>6, <2>7
<1>. QED  BY <1>7, <1>8

\* A word that is found in what was masked was in the text, and not where it was masked.
LEMMA MaskFinds ==
  ASSUME NEW t \in Text, NEW s \in Words, NEW w \in Words,
         NEW p \in 1..Len(Masked(t, s)), At(Masked(t, s), w, p)
  PROVE  \E q \in 1..Len(t) : At(t, w, q) /\ ~At(t, s, q)
<1>. DEFINE Bad == {u \in Text : \E n \in 1..Len(Masked(u, s)) :
                      At(Masked(u, s), w, n) /\ ~\E q \in 1..Len(u) : At(u, w, q) /\ ~At(u, s, q)}
<1>1. SUFFICES ASSUME Bad # {}  PROVE FALSE  OBVIOUS
<1>2. PICK b \in Bad : \A u \in Bad : Len(b) <= Len(u)
  <2>1. Bad \subseteq Text  OBVIOUS
  <2>. HIDE DEF Bad
  <2>. QED  BY <1>1, <2>1, ShortestText
<1>3. b \in Text  BY <1>2
<1>4. ASSUME NEW u \in Text, Len(u) < Len(b), NEW n \in 1..Len(Masked(u, s)), At(Masked(u, s), w, n)
      PROVE  \E q \in 1..Len(u) : At(u, w, q) /\ ~At(u, s, q)
  <2>1. Len(u) \in Nat /\ Len(b) \in Nat  BY <1>3, <1>4, LettersOf
  <2>. QED  BY <1>2, <1>4, <2>1
<1>5. PICK n \in 1..Len(Masked(b, s)) :
        At(Masked(b, s), w, n) /\ ~\E q \in 1..Len(b) : At(b, w, q) /\ ~At(b, s, q)
  BY <1>2
<1>. HIDE DEF Bad
<1>0. Len(b) \in Nat /\ Len(Masked(b, s)) \in Nat
  <2>1. Masked(b, s) \in Text  BY <1>3, MaskedStep
  <2>. QED  BY <1>3, <2>1, LettersOf
<1>6. b # <<>>
  <2>1. SUFFICES ASSUME b = <<>>  PROVE FALSE  OBVIOUS
  <2>2. Masked(b, s) = <<>>  BY <1>3, <2>1, MaskedStep
  <2>. QED  BY <1>5, <2>2
\* What is found behind the first k letters of b is found in b.
<1>7. ASSUME NEW k \in 1..Len(b), NEW m \in 1..Len(Masked(Drop(b, k), s)), At(Masked(Drop(b, k), s), w, m)
      PROVE  FALSE
  <2>1. Drop(b, k) \in Text /\ Len(Drop(b, k)) = Len(b) - k /\ k \in 0..Len(b)
    <3>1. k \in 0..Len(b)  BY <1>0
    <3>. QED  BY <1>3, <3>1, DropIs
  <2>2. PICK q \in 1..Len(Drop(b, k)) : At(Drop(b, k), w, q) /\ ~At(Drop(b, k), s, q)
    <3>1. Len(Drop(b, k)) < Len(b)  BY <1>0, <2>1
    <3>. QED  BY <1>4, <1>7, <2>1, <3>1
  <2>3. q \in 1..(Len(b) - k) /\ k + q \in 1..Len(b)  BY <1>0, <2>1
  <2>4. At(b, w, k + q) /\ ~At(b, s, k + q)  BY <1>3, <2>1, <2>2, <2>3, AtDrop
  <2>. QED  BY <1>5, <2>3, <2>4
<1>8. Len(w) \in Nat \ {0} /\ 1 \in 1..Len(w) /\ w[1] \in Characters /\ n \in Nat \ {0}
  <2>1. Len(w) \in Nat \ {0}  BY WordIs
  <2>2. 1 \in 1..Len(w)  BY <2>1
  <2>. QED  BY <1>0, <2>1, <2>2, WordIs
<1>9. n + Len(w) - 1 <= Len(Masked(b, s)) /\ \A k \in 1..Len(w) : Masked(b, s)[n + k - 1] = w[k]
  <2>1. Masked(b, s) \in Text  BY <1>3, MaskedStep
  <2>. QED  BY <1>5, <1>8, <2>1, AtIs
<1>10. CASE At(b, s, 1)
  <2>1. Len(s) \in 1..Len(b) /\ Masked(b, s) = Mask \o Masked(Drop(b, Len(s)), s)
    BY <1>3, <1>6, <1>10, MaskedStep
  <2>2. Masked(Drop(b, Len(s)), s) \in Text
    <3>1. Drop(b, Len(s)) \in Text  BY <1>0, <1>3, <2>1, DropIs
    <3>. QED  BY <3>1, MaskedStep
  <2>3. Masked(b, s)[n] = w[1]
    <3>1. n + 1 - 1 = n  BY <1>8
    <3>. QED  BY <1>8, <1>9, <3>1
  <2>4. n # 1 /\ n # 2
    <3>1. "[" \notin Characters /\ "]" \notin Characters  BY LettersAre
    <3>2. (Mask \o Masked(Drop(b, Len(s)), s))[1] = "[" /\ (Mask \o Masked(Drop(b, Len(s)), s))[2] = "]"
      BY <2>2, MaskJoin
    <3>3. Masked(b, s)[1] = "[" /\ Masked(b, s)[2] = "]"  BY <2>1, <3>2, Zenon
    <3>. QED  BY <1>8, <2>3, <3>1, <3>3
  <2>5. Len(Masked(b, s)) = 2 + Len(Masked(Drop(b, Len(s)), s))
    <3>1. Len(Mask \o Masked(Drop(b, Len(s)), s)) = 2 + Len(Masked(Drop(b, Len(s)), s))  BY <2>2, MaskJoin
    <3>. QED  BY <2>1, <3>1, Zenon
  <2>6. n - 2 \in 1..Len(Masked(Drop(b, Len(s)), s)) /\ Len(Mask) + (n - 2) = n
    <3>1. Len(Masked(Drop(b, Len(s)), s)) \in Nat  BY <2>2, LettersOf
    <3>. QED  BY <1>5, <1>8, <2>4, <2>5, <3>1, LettersAre
  <2>7. At(Masked(Drop(b, Len(s)), s), w, n - 2)
    <3>1. At(Masked(Drop(b, Len(s)), s), w, n - 2)
            <=> At(Mask \o Masked(Drop(b, Len(s)), s), w, Len(Mask) + (n - 2))
      BY <2>2, <2>6, LettersAre, AtJoin
    <3>. QED  BY <1>5, <2>1, <2>6, <3>1
  <2>. QED  BY <1>7, <2>1, <2>6, <2>7
<1>11. CASE ~At(b, s, 1)
  <2>. DEFINE h == <<b[1]>>
              m == Masked(Drop(b, 1), s)
  <2>1. Masked(b, s) = h \o m  BY <1>3, <1>6, <1>11, MaskedStep
  <2>2. h \in Text /\ Len(h) = 1 /\ 1 \in 0..Len(b) /\ 1 \in 1..Len(b)  BY <1>3, <1>6, HeadTail
  <2>3. m \in Text /\ Len(m) \in Nat
    <3>1. Drop(b, 1) \in Text  BY <1>3, <2>2, DropIs
    <3>. QED  BY <3>1, MaskedStep, LettersOf
  <2>4. CASE n = 1
    <3>1. Len(w) \in 0..Len(Masked(b, s)) /\ \A k \in 1..Len(w) : Masked(b, s)[k] = w[k]
      <4>1. \A k \in 1..Len(w) : n + k - 1 = k  BY <1>8, <2>4
      <4>2. n + Len(w) - 1 = Len(w)  BY <1>8, <2>4
      <4>. QED  BY <1>0, <1>8, <1>9, <4>1, <4>2
    <3>2. PlainTo(Masked(b, s), Len(w))  BY <3>1, WordIs DEF PlainTo
    <3>3. Len(w) <= Len(b) /\ \A k \in 1..Len(w) : Masked(b, s)[k] = b[k]
      BY <1>3, <3>1, <3>2, MaskFront DEF PlainFront
    <3>4. At(b, w, 1)
      <4>1. 1 + Len(w) - 1 <= Len(b) /\ \A k \in 1..Len(w) : 1 + k - 1 = k /\ b[k] = w[k]
        BY <1>0, <1>8, <3>1, <3>3
      <4>2. \A k \in 1..Len(w) : b[1 + k - 1] = w[k]  BY <4>1
      <4>. QED  BY <1>3, <4>1, <4>2, AtIs, SMTT(40)
    <3>. QED  BY <1>5, <1>11, <2>2, <3>4
  <2>5. CASE n # 1
    <3>. HIDE DEF h, m
    <3>1. n - 1 \in 1..Len(m) /\ Len(h) + (n - 1) = n
      <4>1. Len(h \o m) = 1 + Len(m)  BY <2>2, <2>3, LetterJoin
      <4>2. Len(Masked(b, s)) = 1 + Len(m)  BY <2>1, <4>1, Zenon
      <4>. QED  BY <1>5, <1>8, <2>2, <2>3, <2>5, <4>2
    <3>2. At(m, w, n - 1)
      <4>1. At(m, w, n - 1) <=> At(h \o m, w, Len(h) + (n - 1))  BY <2>2, <2>3, <3>1, AtJoin
      <4>. QED  BY <1>5, <2>1, <3>1, <4>1
    <3>. QED  BY <1>7, <2>2, <3>1, <3>2 DEF m
  <2>. QED  BY <2>4, <2>5
<1>. QED  BY <1>10, <1>11

\* No word is left where it was masked, and none comes in.
LEMMA MaskCleans ==
  ASSUME NEW t \in Text, NEW s \in Words, NEW w \in Words, Occurs(w, Masked(t, s))
  PROVE  Occurs(w, t) /\ w # s
<1>1. PICK p \in 1..Len(Masked(t, s)) : At(Masked(t, s), w, p)
  <2>1. DOMAIN Masked(t, s) = 1..Len(Masked(t, s))  BY MaskedStep, LettersOf
  <2>. QED  BY <2>1 DEF Occurs
<1>2. PICK q \in 1..Len(t) : At(t, w, q) /\ ~At(t, s, q)  BY <1>1, MaskFinds
<1>. QED  BY <1>2, LettersOf DEF Occurs

\* A text a word does not occur in stays as it is.
LEMMA MaskNothing ==
  ASSUME NEW t \in Text, NEW s \in Words, ~Occurs(s, t)
  PROVE  Masked(t, s) = t
<1>. DEFINE Bad == {u \in Text : ~Occurs(s, u) /\ Masked(u, s) # u}
<1>1. SUFFICES ASSUME Bad # {}  PROVE FALSE  OBVIOUS
<1>2. PICK b \in Bad : \A u \in Bad : Len(b) <= Len(u)
  <2>1. Bad \subseteq Text  OBVIOUS
  <2>. HIDE DEF Bad
  <2>. QED  BY <1>1, <2>1, ShortestText
<1>3. b \in Text /\ ~Occurs(s, b) /\ Masked(b, s) # b  BY <1>2
<1>4. b # <<>>  BY <1>3, MaskedStep
<1>. DEFINE d == Drop(b, 1)
            h == <<b[1]>>
<1>5. h \in Text /\ 1 \in 0..Len(b) /\ 1 \in 1..Len(b) /\ h \o d = b  BY <1>3, <1>4, HeadTail
<1>6. d \in Text /\ Len(d) = Len(b) - 1  BY <1>3, <1>5, DropIs
<1>7. ~At(b, s, 1)  BY <1>3, <1>5, LettersOf DEF Occurs
<1>8. Masked(b, s) = h \o Masked(d, s)  BY <1>3, <1>4, <1>7, MaskedStep
<1>. HIDE DEF d, h
<1>9. ~Occurs(s, d)
  <2>1. SUFFICES ASSUME Occurs(s, d)  PROVE FALSE  OBVIOUS
  <2>2. Occurs(s, h \o d)  BY <1>5, <1>6, <2>1, OccursJoined
  <2>. QED  BY <1>3, <1>5, <2>2
<1>10. d \notin Bad
  <2>1. ~(Len(b) <= Len(d))  BY <1>3, <1>6, LettersOf
  <2>. HIDE DEF Bad
  <2>. QED  BY <1>2, <2>1
<1>11. Masked(d, s) = d  BY <1>6, <1>9, <1>10
<1>. QED  BY <1>3, <1>5, <1>8, <1>11

\* A text that ends with a plain one leaves room for the mask before it.
LEMMA MaskBefore ==
  ASSUME NEW m \in Text, NEW z \in Text, NEW c \in Plain, Mask \o m = z \o c
  PROVE  2 \in 0..Len(z) /\ Drop(z, 2) \in Text /\ Len(Drop(z, 2)) = Len(z) - 2 /\ m = Drop(z, 2) \o c
<1>0. c \in Text /\ Len(c) \in Nat /\ Len(z) \in Nat /\ Len(m) \in Nat  BY PlainIs, LettersOf
<1>. DEFINE v == Mask \o m
<1>1. Len(v) = 2 + Len(m) /\ v[2] = "]"  BY MaskJoin
<1>2. /\ Len(v) = Len(z) + Len(c)
      /\ \A i \in 1..Len(c) : v[Len(z) + i] = c[i]
  BY <1>0, JoinIs
<1>. HIDE DEF v
<1>3. Len(z) >= 2
  <2>1. SUFFICES ASSUME Len(z) < 2  PROVE FALSE  BY <1>0
  <2>2. PICK i \in 1..Len(c) : Len(z) + i = 2
    <3>1. 2 - Len(z) \in 1..Len(c) /\ Len(z) + (2 - Len(z)) = 2  BY <1>0, <1>1, <1>2, <2>1
    <3>. QED  BY <3>1
  <2>3. c[i] = "]"  BY <1>1, <1>2, <2>2
  <2>4. c[i] \in Characters  BY <2>2, PlainIs
  <2>. QED  BY <2>3, <2>4, LettersAre
<1>4. 2 \in 0..Len(z)  BY <1>0, <1>3
<1>5. Drop(z \o c, 2) = Drop(z, 2) \o c  BY <1>0, <1>4, DropJoin
<1>6. Drop(Mask \o m, 2) = m  BY LettersAre, DropFirst
<1>7. Drop(z, 2) \in Text /\ Len(Drop(z, 2)) = Len(z) - 2  BY <1>4, DropIs
<1>. QED  BY <1>4, <1>5, <1>6, <1>7

EndsWith(t, c) == \E x \in Text : t = x \o c

\* What a masked text ends with, up to a letter of the mask, the text ended with.
LEMMA MaskBack ==
  ASSUME NEW t \in Text, NEW s \in Words, NEW c \in Plain, EndsWith(Masked(t, s), c)
  PROVE  EndsWith(t, c)
<1>0. c \in Text /\ Len(c) \in Nat  BY PlainIs, LettersOf
<1>. DEFINE Bad == {u \in Text : (\E y \in Text : Masked(u, s) = y \o c) /\ ~\E x \in Text : u = x \o c}
<1>1. SUFFICES ASSUME Bad # {}  PROVE FALSE  BY DEF EndsWith
<1>2. PICK b \in Bad : \A u \in Bad : Len(b) <= Len(u)
  <2>1. Bad \subseteq Text  OBVIOUS
  <2>. HIDE DEF Bad
  <2>. QED  BY <1>1, <2>1, ShortestText
<1>3. b \in Text /\ (\E y \in Text : Masked(b, s) = y \o c) /\ ~\E x \in Text : b = x \o c  BY <1>2
<1>4. PICK y \in Text : Masked(b, s) = y \o c  BY <1>3
<1>5. Len(b) \in Nat /\ Len(y) \in Nat  BY <1>3, LettersOf
\* Nor does anything that is left of b when its beginning is dropped.
<1>6. ASSUME NEW k \in 1..Len(b), NEW v \in Text, Masked(Drop(b, k), s) = v \o c
      PROVE  FALSE
  <2>1. k \in 0..Len(b)  BY <1>5
  <2>2. Drop(b, k) \in Text /\ Len(Drop(b, k)) = Len(b) - k  BY <1>3, <2>1, DropIs
  <2>3. Drop(b, k) \notin Bad
    <3>1. ~(Len(b) <= Len(Drop(b, k)))  BY <1>5, <2>2
    <3>. HIDE DEF Bad
    <3>. QED  BY <1>2, <3>1
  <2>4. PICK x \in Text : Drop(b, k) = x \o c  BY <1>6, <2>2, <2>3
  <2>. HIDE DEF Bad
  <2>. DEFINE a == Take(b, k)
  <2>5. a \in Text /\ a \o Drop(b, k) = b  BY <1>3, <2>1, TakeIs, TakeDrop
  <2>. HIDE DEF a
  <2>6. (a \o x) \o c = a \o (x \o c)  BY <1>0, <2>5, JoinAgain, Zenon
  <2>7. a \o x \in Text  BY <2>5, JoinIs
  <2>8. b = (a \o x) \o c  BY <2>4, <2>5, <2>6
  <2>. QED  BY <1>3, <2>7, <2>8, Zenon
<1>. HIDE DEF Bad
<1>7. b # <<>>
  <2>1. SUFFICES ASSUME b = <<>>  PROVE FALSE  OBVIOUS
  <2>2. Masked(b, s) = b  BY <1>3, <2>1, MaskedStep
  <2>. QED  BY <1>3, <1>4, <2>2
<1>8. CASE At(b, s, 1)
  <2>1. Len(s) \in 1..Len(b) /\ Masked(b, s) = Mask \o Masked(Drop(b, Len(s)), s)
    BY <1>3, <1>7, <1>8, MaskedStep
  <2>2. Masked(Drop(b, Len(s)), s) \in Text
    <3>1. Drop(b, Len(s)) \in Text  BY <1>3, <1>5, <2>1, DropIs
    <3>. QED  BY <3>1, MaskedStep
  <2>3. Mask \o Masked(Drop(b, Len(s)), s) = y \o c  BY <1>4, <2>1
  <2>4. Drop(y, 2) \in Text /\ Masked(Drop(b, Len(s)), s) = Drop(y, 2) \o c
    <3>. DEFINE m == Masked(Drop(b, Len(s)), s)
    <3>1. m \in Text /\ Mask \o m = y \o c  BY <2>2, <2>3
    <3>. HIDE DEF m
    <3>2. Drop(y, 2) \in Text /\ m = Drop(y, 2) \o c  BY <1>4, <3>1, MaskBefore, Zenon
    <3>. QED  BY <3>2 DEF m
  <2>. QED  BY <1>6, <2>1, <2>4
<1>9. CASE ~At(b, s, 1)
  <2>. DEFINE h == <<b[1]>>
              m == Masked(Drop(b, 1), s)
  <2>1. Masked(b, s) = h \o m  BY <1>3, <1>7, <1>9, MaskedStep
  <2>2. h \in Text /\ Len(h) = 1 /\ 1 \in 0..Len(b) /\ 1 \in 1..Len(b)  BY <1>3, <1>7, HeadTail
  <2>3. m \in Text
    <3>1. Drop(b, 1) \in Text  BY <1>3, <2>2, DropIs
    <3>. QED  BY <3>1, MaskedStep
  <2>. HIDE DEF h
  <2>4. CASE y = <<>>
    <3>1. Masked(b, s) = c  BY <1>0, <1>4, <2>4, JoinsAre
    <3>2. PlainTo(Masked(b, s), Len(c)) /\ Len(c) \in 0..Len(Masked(b, s))
      BY <1>0, <3>1, PlainIs DEF PlainTo
    <3>3. Len(b) = Len(c) /\ \A k \in 1..Len(c) : c[k] = b[k]
      BY <1>3, <3>1, <3>2, MaskFront DEF PlainFront
    <3>4. b = c  BY <1>0, <1>3, <3>3, SameText
    <3>5. b = <<>> \o c /\ <<>> \in Text  BY <1>0, <3>4, JoinsAre, LettersAre
    <3>. QED  BY <1>3, <3>5
  <2>5. CASE y # <<>>
    <3>1. 1 \in 0..Len(y)  BY <2>5, HeadTail
    <3>2. Drop(y \o c, 1) = Drop(y, 1) \o c /\ Drop(y, 1) \in Text  BY <1>0, <3>1, DropJoin, DropIs
    <3>3. Drop(h \o m, 1) = m
      <4>1. Drop(h \o m, Len(h)) = m  BY <2>2, <2>3, DropFirst
      <4>. QED  BY <2>2, <4>1
    <3>4. m = Drop(y, 1) \o c  BY <1>4, <2>1, <3>2, <3>3
    <3>. QED  BY <1>6, <2>2, <3>2, <3>4
  <2>. QED  BY <2>4, <2>5
<1>. QED  BY <1>8, <1>9

\* What is dropped of a text and another reaches into that one.
LEMMA DropBoth ==
  ASSUME NEW x \in Text, NEW u \in Text, NEW k \in Len(x)..(Len(x) + Len(u))
  PROVE  k - Len(x) \in 0..Len(u) /\ Drop(x \o u, k) = Drop(u, k - Len(x))
<1>. DEFINE l == Len(x)
            m == Len(u)
            j == k - l
            w == x \o u
<1>1. l \in Nat /\ m \in Nat /\ l = Len(x) /\ m = Len(u)  BY LettersOf
<1>2. w \in Text /\ Len(w) = l + m /\ \A i \in 1..m : w[l + i] = u[i]  BY JoinIs
<1>3. j \in 0..m /\ k = l + j /\ k \in 0..(l + m)  BY <1>1
<1>. HIDE DEF l, m, w, j
<1>4. /\ Drop(u, j) \in Text /\ Len(Drop(u, j)) = m - j
      /\ \A i \in 1..(m - j) : Drop(u, j)[i] = u[j + i]
  BY <1>1, <1>3, DropIs
<1>5. /\ Drop(w, k) \in Text /\ Len(Drop(w, k)) = l + m - k
      /\ \A i \in 1..(l + m - k) : Drop(w, k)[i] = w[k + i]
  <2>1. k \in 0..Len(w)  BY <1>2, <1>3
  <2>2. /\ Drop(w, k) \in Text /\ Len(Drop(w, k)) = Len(w) - k
        /\ \A i \in 1..(Len(w) - k) : Drop(w, k)[i] = w[k + i]
    BY <1>2, <2>1, DropIs
  <2>3. Len(w) - k = l + m - k  BY <1>1, <1>2, <1>3
  <2>. QED  BY <2>2, <2>3
<1>6. l + m - k = m - j  BY <1>1, <1>3
<1>7. ASSUME NEW i \in 1..(m - j)
      PROVE  Drop(w, k)[i] = Drop(u, j)[i]
  <2>1. j + i \in 1..m /\ k + i = l + (j + i)  BY <1>1, <1>3
  <2>2. w[k + i] = u[j + i]  BY <1>2, <2>1
  <2>. QED  BY <1>4, <1>5, <1>6, <2>2
<1>8. Drop(w, k) = Drop(u, j)  BY <1>4, <1>5, <1>6, <1>7, SameText
<1>. QED  BY <1>3, <1>8 DEF w, j, l, m

\* A word stands at the beginning of a text.
LEMMA AtFirst ==
  ASSUME NEW t \in Text, NEW s \in Words
  PROVE  At(t, s, 1) <=> Len(s) <= Len(t) /\ \A k \in 1..Len(s) : t[k] = s[k]
<1>1. 1 \in Nat \ {0} /\ Len(s) \in Nat /\ Len(t) \in Nat  BY LettersOf, WordIs
<1>2. At(t, s, 1) <=> 1 + Len(s) - 1 <= Len(t) /\ \A k \in 1..Len(s) : t[1 + k - 1] = s[k]  BY <1>1, AtIs
<1>3. 1 + Len(s) - 1 = Len(s) /\ \A k \in 1..Len(s) : 1 + k - 1 = k  BY <1>1
<1>. QED  BY <1>2, <1>3

\* What a text ends with and no word touches is left when the word is masked.
LEMMA MaskKeepsEnd ==
  ASSUME NEW s \in Words, NEW u \in Text, ~Occurs(s, u),
         \A n \in 1..Len(s) : n <= Len(u) => Drop(s, Len(s) - n) # Take(u, n),
         NEW x \in Text
  PROVE  \E z \in Text : Masked(x \o u, s) = z \o u
<1>. DEFINE Bad == {y \in Text : ~\E z \in Text : Masked(y \o u, s) = z \o u}
<1>1. SUFFICES ASSUME Bad # {}  PROVE FALSE  OBVIOUS
<1>2. PICK b \in Bad : \A y \in Bad : Len(b) <= Len(y)
  <2>1. Bad \subseteq Text  OBVIOUS
  <2>. HIDE DEF Bad
  <2>. QED  BY <1>1, <2>1, ShortestText
<1>3. b \in Text /\ ~\E z \in Text : Masked(b \o u, s) = z \o u  BY <1>2
<1>4. ASSUME NEW y \in Text, Len(y) < Len(b)
      PROVE  \E z \in Text : Masked(y \o u, s) = z \o u
  <2>1. ~(Len(b) <= Len(y))
    <3>1. Len(y) \in Nat /\ Len(b) \in Nat  BY <1>3, <1>4, LettersOf
    <3>. QED  BY <1>4, <3>1
  <2>2. y \notin Bad
    <3>. HIDE DEF Bad
    <3>. QED  BY <1>2, <2>1
  <2>. QED  BY <1>4, <2>2, Zenon
<1>. HIDE DEF Bad
<1>5. Len(b) \in Nat /\ Len(u) \in Nat /\ Len(s) \in Nat \ {0} /\ s \in Text  BY <1>3, LettersOf, WordIs
<1>6. b # <<>>
  <2>1. SUFFICES ASSUME b = <<>>  PROVE FALSE  OBVIOUS
  <2>2. b \o u = u /\ <<>> \o u = u /\ <<>> \in Text  BY <2>1, JoinsAre, LettersAre
  <2>3. Masked(b \o u, s) = <<>> \o u  BY <2>2, MaskNothing
  <2>. QED  BY <1>3, <2>2, <2>3
<1>7. 1 \in 0..Len(b) /\ 1 \in 1..Len(b)  BY <1>3, <1>6, HeadTail
<1>. DEFINE w == b \o u
<1>8. w \in Text /\ Len(w) = Len(b) + Len(u) /\ (\A i \in 1..Len(b) : w[i] = b[i])
      /\ \A i \in 1..Len(u) : w[Len(b) + i] = u[i]
  BY <1>3, JoinIs
<1>9. w # <<>>
  <2>. HIDE DEF w
  <2>1. Len(w) # 0  BY <1>5, <1>7, <1>8
  <2>. QED  BY <2>1
\* Whatever is put before what is masked of the rest.
<1>10. ASSUME NEW k \in 1..Len(b), NEW h \in Text, Masked(w, s) = h \o Masked(Drop(w, k), s)
       PROVE  FALSE
  <2>1. k \in 0..Len(b)  BY <1>5
  <2>2. Drop(b, k) \in Text /\ Len(Drop(b, k)) < Len(b) /\ Drop(w, k) = Drop(b, k) \o u
    <3>1. Drop(b, k) \in Text /\ Len(Drop(b, k)) = Len(b) - k  BY <1>3, <2>1, DropIs
    <3>2. Drop(w, k) = Drop(b, k) \o u  BY <1>3, <2>1, DropJoin
    <3>. QED  BY <1>5, <3>1, <3>2
  <2>3. PICK z \in Text : Masked(Drop(b, k) \o u, s) = z \o u  BY <1>4, <2>2
  <2>4. Masked(w, s) = h \o (z \o u)  BY <1>10, <2>2, <2>3
  <2>5. (h \o z) \o u = h \o (z \o u)  BY JoinAgain, Zenon
  <2>6. h \o z \in Text  BY JoinIs
  <2>. QED  BY <1>3, <2>4, <2>5, <2>6
<1>11. CASE At(w, s, 1)
  <2>1. Len(s) <= Len(w) /\ \A k \in 1..Len(s) : w[k] = s[k]  BY <1>8, <1>11, AtFirst
  <2>2. CASE Len(s) <= Len(b)
    <3>1. Masked(w, s) = Mask \o Masked(Drop(w, Len(s)), s)  BY <1>8, <1>9, <1>11, MaskedStep
    <3>2. Len(s) \in 1..Len(b)  BY <1>5, <2>2
    <3>. QED  BY <1>10, <3>1, <3>2, LettersAre
  <2>3. CASE Len(s) > Len(b)
    <3>. DEFINE n == Len(s) - Len(b)
    <3>1. n \in 1..Len(s) /\ n <= Len(u) /\ n \in 0..Len(u) /\ Len(s) - n = Len(b) /\ Len(b) \in 0..Len(s)
      BY <1>5, <1>7, <1>8, <2>1, <2>3
    <3>. HIDE DEF n, w
    <3>2. /\ Drop(s, Len(b)) \in Text /\ Len(Drop(s, Len(b))) = n
          /\ \A i \in 1..n : Drop(s, Len(b))[i] = s[Len(b) + i]
      <4>1. Len(s) - Len(b) = n  BY DEF n
      <4>. QED  BY <1>5, <3>1, <4>1, DropIs
    <3>3. Take(u, n) \in Text /\ Len(Take(u, n)) = n /\ \A i \in 1..n : Take(u, n)[i] = u[i]
      BY <3>1, TakeIs
    <3>4. ASSUME NEW i \in 1..n
          PROVE  Drop(s, Len(b))[i] = Take(u, n)[i]
      <4>1. Len(b) + i \in 1..Len(s) /\ i \in 1..Len(u)  BY <1>5, <3>1
      <4>. QED  BY <1>8, <2>1, <3>2, <3>3, <4>1
    <3>5. Drop(s, Len(b)) = Take(u, n)  BY <3>2, <3>3, <3>4, SameText
    <3>. QED  BY <3>1, <3>5
  <2>4. Len(s) <= Len(b) \/ Len(s) > Len(b)  BY <1>5
  <2>. QED  BY <2>2, <2>3, <2>4
<1>12. CASE ~At(w, s, 1)
  <2>1. Masked(w, s) = <<w[1]>> \o Masked(Drop(w, 1), s)  BY <1>8, <1>9, <1>12, MaskedStep
  <2>2. <<w[1]>> \in Text  BY <1>8, <1>9, HeadTail
  <2>. QED  BY <1>7, <1>10, <2>1, <2>2
<1>. QED  BY <1>11, <1>12

\* u is the beginning of a word, and not all of it.
Begins(u, s) == Len(u) < Len(s) /\ u = Take(s, Len(u))
\* No end of v that a word may begin with is longer than c.
NoLonger(v, s, c) == \A x, u \in Text : v = x \o u /\ Begins(u, s) => Len(u) <= Len(c)
\* How y begins c begins, as far as both go.
Follows(y, c) ==
  \A n \in 0..Len(y) : PlainTo(y, n) => \A k \in 1..n : k <= Len(c) => y[k] = c[k]

\* The same goes before c in t and before v in w.
Goes(t, w, c, v) == \E y \in Text : t = y \o c /\ w = y \o v

LEMMA NoLongerBehind ==
  ASSUME NEW h \in Text, NEW v \in Text, NEW s, NEW c, NoLonger(h \o v, s, c)
  PROVE  NoLonger(v, s, c)
<1>1. SUFFICES ASSUME NEW x \in Text, NEW u \in Text, v = x \o u, Begins(u, s)
               PROVE  Len(u) <= Len(c)
  BY DEF NoLonger
<1>2. (h \o x) \o u = h \o (x \o u)  BY JoinAgain, Zenon
<1>3. h \o x \in Text  BY JoinIs
<1>4. h \o v = (h \o x) \o u  BY <1>1, <1>2
<1>. QED  BY <1>1, <1>3, <1>4 DEF NoLonger

\* What is masked of a text up to an end that is held back does not change with
\* what follows, when the end is the longest a word may begin with.
LEMMA MaskSplits ==
  ASSUME NEW s \in Words, NEW c \in Plain, ~Occurs(s, c), NEW y \in Text, Follows(y, c),
         NEW x \in Text, EndsWith(Masked(x \o c, s), c), NoLonger(Masked(x \o c, s), s, c)
  PROVE  Goes(Masked(x \o c, s), Masked(x \o y, s), c, Masked(y, s))
<1>. DEFINE Fits(v) ==
       (\E a \in Text : Masked(v \o c, s) = a \o c) /\ NoLonger(Masked(v \o c, s), s, c) =>
         \E a \in Text : Masked(v \o c, s) = a \o c /\ Masked(v \o y, s) = a \o Masked(y, s)
            Bad == {v \in Text : ~Fits(v)}
<1>0. c \in Text /\ Len(c) \in Nat  BY PlainIs, LettersOf
<1>1. SUFFICES Bad = {}
  <2>1. Fits(x)
    <3>. HIDE DEF Fits
    <3>. QED  BY <1>1
  <2>. QED  BY <2>1 DEF EndsWith, Goes
<1>2. SUFFICES ASSUME Bad # {}  PROVE FALSE  OBVIOUS
<1>. HIDE DEF Fits
<1>3. PICK b \in Bad : \A v \in Bad : Len(b) <= Len(v)
  <2>1. Bad \subseteq Text  OBVIOUS
  <2>. HIDE DEF Bad
  <2>. QED  BY <1>2, <2>1, ShortestText
<1>4. b \in Text /\ ~Fits(b)  BY <1>3
<1>5. Len(b) \in Nat /\ Len(y) \in Nat /\ Len(s) \in Nat \ {0} /\ s \in Text  BY <1>4, LettersOf, WordIs
<1>6. ASSUME NEW v \in Text, Len(v) < Len(b)
      PROVE  Fits(v)
  <2>1. Len(v) \in Nat  BY LettersOf
  <2>. QED  BY <1>3, <1>5, <1>6, <2>1
<1>. HIDE DEF Bad
<1>. DEFINE t == b \o c
            w == b \o y
<1>7. /\ t \in Text /\ Len(t) = Len(b) + Len(c) /\ \A i \in 1..Len(b) : t[i] = b[i]
      /\ \A i \in 1..Len(c) : t[Len(b) + i] = c[i]
  BY <1>0, <1>4, JoinIs
<1>8. /\ w \in Text /\ Len(w) = Len(b) + Len(y) /\ \A i \in 1..Len(b) : w[i] = b[i]
      /\ \A i \in 1..Len(y) : w[Len(b) + i] = y[i]
  BY <1>4, JoinIs
<1>9. /\ \E a \in Text : Masked(t, s) = a \o c
      /\ NoLonger(Masked(t, s), s, c)
      /\ ~\E a \in Text : Masked(t, s) = a \o c /\ Masked(w, s) = a \o Masked(y, s)
  BY <1>4 DEF Fits
<1>10. PICK a \in Text : Masked(t, s) = a \o c  BY <1>9
<1>11. Masked(y, s) \in Text  BY MaskedStep
<1>12. b # <<>>
  <2>1. SUFFICES ASSUME b = <<>>  PROVE FALSE  OBVIOUS
  <2>2. t = c /\ w = y /\ <<>> \o c = c /\ <<>> \o Masked(y, s) = Masked(y, s) /\ <<>> \in Text
    BY <1>0, <1>11, <2>1, JoinsAre, LettersAre
  <2>3. Masked(t, s) = c  BY <1>0, <2>2, MaskNothing
  <2>. QED  BY <1>9, <2>2, <2>3
<1>13. 1 \in 0..Len(b) /\ 1 \in 1..Len(b)  BY <1>4, <1>12, HeadTail
\* As much of the beginning is masked, or kept, in both.
<1>14. ASSUME NEW k \in 1..Len(b), NEW h \in Text, Masked(t, s) = h \o Masked(Drop(t, k), s),
              Masked(w, s) = h \o Masked(Drop(w, k), s), NEW v \in Text, Masked(Drop(t, k), s) = v \o c
       PROVE  FALSE
  <2>. DEFINE d == Drop(b, k)
  <2>1. k \in 0..Len(b)  BY <1>5
  <2>2. d \in Text /\ Len(d) < Len(b)
    <3>1. Drop(b, k) \in Text /\ Len(Drop(b, k)) = Len(b) - k  BY <1>4, <2>1, DropIs
    <3>. QED  BY <1>5, <3>1
  <2>3. Drop(t, k) = d \o c /\ Drop(w, k) = d \o y  BY <1>0, <1>4, <2>1, DropJoin
  <2>. HIDE DEF d, t, w
  <2>4. NoLonger(Masked(d \o c, s), s, c)
    <3>1. Masked(d \o c, s) \in Text
      <4>1. d \o c \in Text  BY <1>0, <2>2, JoinIs
      <4>. QED  BY <4>1, MaskedStep
    <3>2. NoLonger(h \o Masked(d \o c, s), s, c)  BY <1>9, <1>14, <2>3
    <3>. QED  BY <3>1, <3>2, NoLongerBehind
  <2>5. Masked(d \o c, s) = v \o c  BY <1>14, <2>3
  <2>6. Fits(d)  BY <1>6, <2>2
  <2>7. PICK e \in Text : Masked(d \o c, s) = e \o c /\ Masked(d \o y, s) = e \o Masked(y, s)
    BY <2>4, <2>5, <2>6 DEF Fits
  <2>8. Masked(t, s) = h \o (e \o c) /\ Masked(w, s) = h \o (e \o Masked(y, s))  BY <1>14, <2>3, <2>7
  <2>9. (h \o e) \o c = h \o (e \o c) /\ (h \o e) \o Masked(y, s) = h \o (e \o Masked(y, s))
    <3>1. e \in Text  BY <2>7
    <3>2. Again(h, e, c) /\ Again(h, e, Masked(y, s))  BY <1>0, <1>11, <3>1, JoinedAgain
    <3>. QED  BY <3>2 DEF Again
  <2>10. h \o e \in Text  BY JoinIs
  <2>11. Masked(t, s) = (h \o e) \o c /\ Masked(w, s) = (h \o e) \o Masked(y, s)  BY <2>8, <2>9
  <2>. QED  BY <1>9, <2>10, <2>11
<1>. HIDE DEF t, w
<1>15. t # <<>> /\ w # <<>> /\ t[1] = w[1]
  <2>1. Len(t) # 0 /\ Len(w) # 0 /\ t[1] = b[1] /\ w[1] = b[1]  BY <1>0, <1>5, <1>7, <1>8, <1>13
  <2>. QED  BY <2>1
<1>16. CASE At(t, s, 1)
  <2>1. Len(s) \in 1..Len(t) /\ Masked(t, s) = Mask \o Masked(Drop(t, Len(s)), s)
    BY <1>7, <1>15, <1>16, MaskedStep
  <2>2. Len(s) <= Len(t) /\ \A k \in 1..Len(s) : t[k] = s[k]  BY <1>7, <1>16, AtFirst
  <2>3. Drop(t, Len(s)) \in Text /\ Masked(Drop(t, Len(s)), s) \in Text
    <3>1. Drop(t, Len(s)) \in Text  BY <1>5, <1>7, <2>1, DropIs
    <3>. QED  BY <3>1, MaskedStep
  <2>4. Mask \o Masked(Drop(t, Len(s)), s) = a \o c  BY <1>10, <2>1
  <2>5. Drop(a, 2) \in Text /\ Masked(Drop(t, Len(s)), s) = Drop(a, 2) \o c
    <3>. DEFINE m == Masked(Drop(t, Len(s)), s)
    <3>1. m \in Text /\ Mask \o m = a \o c  BY <2>3, <2>4
    <3>. HIDE DEF m
    <3>2. Drop(a, 2) \in Text /\ m = Drop(a, 2) \o c  BY <1>10, <3>1, MaskBefore
    <3>. QED  BY <3>2 DEF m
  <2>6. CASE Len(s) <= Len(b)
    <3>1. At(w, s, 1)
      <4>1. Len(s) <= Len(w) /\ \A k \in 1..Len(s) : k \in 1..Len(b)  BY <1>5, <1>8, <2>6
      <4>2. \A k \in 1..Len(s) : w[k] = s[k]  BY <1>7, <1>8, <2>2, <4>1
      <4>. QED  BY <1>8, <4>1, <4>2, AtFirst
    <3>2. Masked(w, s) = Mask \o Masked(Drop(w, Len(s)), s)  BY <1>8, <1>15, <3>1, MaskedStep
    <3>3. Len(s) \in 1..Len(b)  BY <1>5, <2>6
    <3>. QED  BY <1>14, <2>1, <2>5, <3>2, <3>3, LettersAre
  <2>7. CASE Len(s) > Len(b)
    <3>1. Len(s) \in Len(b)..(Len(b) + Len(c))  BY <1>0, <1>5, <1>7, <2>2, <2>7
    <3>. DEFINE j == Len(s) - Len(b)
                d == Drop(c, j)
    <3>2. j \in 0..Len(c) /\ Drop(t, Len(s)) = d  BY <1>0, <1>4, <3>1, DropBoth DEF t
    <3>3. d \in Text /\ Len(d) = Len(c) - j /\ Take(c, j) \in Text /\ Take(c, j) \o d = c
      BY <1>0, <3>2, DropIs, TakeIs, TakeDrop
    <3>4. j > 0  BY <1>5, <2>7
    <3>. HIDE DEF d, j
    <3>5. ~Occurs(s, d)
      <4>1. SUFFICES ASSUME Occurs(s, d)  PROVE FALSE  OBVIOUS
      <4>2. Occurs(s, Take(c, j) \o d)  BY <3>3, <4>1, OccursJoined
      <4>. QED  BY <3>3, <4>2
    <3>6. Masked(Drop(t, Len(s)), s) = d  BY <3>2, <3>3, <3>5, MaskNothing
    <3>7. Len(d) = Len(Drop(a, 2)) + Len(c)
      <4>1. Len(Drop(a, 2) \o c) = Len(Drop(a, 2)) + Len(c)  BY <1>0, <2>5, JoinIs
      <4>. QED  BY <2>5, <3>6, <4>1
    <3>8. Len(Drop(a, 2)) \in Nat  BY <2>5, LettersOf
    <3>. QED  BY <1>0, <3>2, <3>3, <3>4, <3>7, <3>8
  <2>8. Len(s) <= Len(b) \/ Len(s) > Len(b)  BY <1>5
  <2>. QED  BY <2>6, <2>7, <2>8
<1>17. CASE ~At(t, s, 1)
  <2>. DEFINE h == <<t[1]>>
              m == Masked(Drop(t, 1), s)
  <2>1. Masked(t, s) = h \o m  BY <1>7, <1>15, <1>17, MaskedStep
  <2>2. h \in Text /\ Len(h) = 1 /\ 1 \in 0..Len(t)  BY <1>7, <1>15, HeadTail
  <2>3. m \in Text
    <3>1. Drop(t, 1) \in Text  BY <1>7, <2>2, DropIs
    <3>. QED  BY <3>1, MaskedStep
  <2>4. a # <<>>
    <3>1. SUFFICES ASSUME a = <<>>  PROVE FALSE  OBVIOUS
    <3>2. Masked(t, s) = c  BY <1>0, <1>10, <3>1, JoinsAre
    <3>3. PlainTo(Masked(t, s), Len(c)) /\ Len(c) \in 0..Len(Masked(t, s))
      BY <1>0, <3>2, PlainIs DEF PlainTo
    <3>4. Len(c) = Len(t)  BY <1>7, <3>2, <3>3, MaskFront DEF PlainFront
    <3>. QED  BY <1>0, <1>5, <1>7, <1>13, <3>4
  <2>5. m = Drop(a, 1) \o c /\ Drop(a, 1) \in Text
    <3>. HIDE DEF h, m
    <3>1. 1 \in 0..Len(a)  BY <2>4, HeadTail
    <3>2. Drop(a \o c, 1) = Drop(a, 1) \o c /\ Drop(a, 1) \in Text  BY <1>0, <3>1, DropJoin, DropIs
    <3>3. Drop(h \o m, 1) = m
      <4>1. Drop(h \o m, Len(h)) = m  BY <2>2, <2>3, DropFirst
      <4>. QED  BY <2>2, <4>1
    <3>. QED  BY <1>10, <2>1, <3>2, <3>3
  <2>6. ~At(w, s, 1)
    <3>1. SUFFICES ASSUME At(w, s, 1)  PROVE FALSE  OBVIOUS
    <3>2. Len(s) <= Len(w) /\ \A k \in 1..Len(s) : w[k] = s[k]  BY <1>8, <3>1, AtFirst
    <3>3. \A k \in 1..Len(b) : t[k] = w[k]  BY <1>7, <1>8
    <3>. DEFINE n == Len(s) - Len(b)
    <3>4. CASE Len(s) <= Len(b)
      <4>1. Len(s) <= Len(t) /\ \A k \in 1..Len(s) : k \in 1..Len(b)  BY <1>0, <1>5, <1>7, <3>4
      <4>2. \A k \in 1..Len(s) : t[k] = s[k]  BY <3>2, <3>3, <4>1
      <4>. QED  BY <1>7, <1>17, <4>1, <4>2, AtFirst
    <3>5. CASE Len(s) > Len(b)
      <4>1. n \in 1..Len(y) /\ n \in 0..Len(y) /\ Len(s) = Len(b) + n  BY <1>5, <1>8, <3>2, <3>5
      <4>. HIDE DEF n
      <4>2. \A i \in 1..n : y[i] = s[Len(b) + i] /\ Len(b) + i \in 1..Len(s)
        <5>1. \A i \in 1..n : i \in 1..Len(y) /\ Len(b) + i \in 1..Len(s)  BY <1>5, <4>1
        <5>. QED  BY <1>8, <3>2, <5>1
      <4>3. PlainTo(y, n)  BY <4>2, WordIs DEF PlainTo
      <4>4. \A i \in 1..n : i <= Len(c) => y[i] = c[i]  BY <4>1, <4>3 DEF Follows
      \* As far as it goes, t begins as the word does.
      <4>5. ASSUME NEW k \in 1..Len(s), k <= Len(t)
            PROVE  t[k] = s[k]
        <5>1. CASE k <= Len(b)
          <6>1. k \in 1..Len(b)  BY <5>1
          <6>. QED  BY <3>2, <3>3, <6>1
        <5>2. CASE k > Len(b)
          <6>1. PICK i \in 1..n : k = Len(b) + i /\ i \in 1..Len(c) /\ i <= Len(c)
            <7>1. k - Len(b) \in 1..n /\ k = Len(b) + (k - Len(b)) /\ k - Len(b) \in 1..Len(c)
                  /\ k - Len(b) <= Len(c)
              BY <1>0, <1>5, <1>7, <4>1, <4>5, <5>2
            <7>. QED  BY <7>1
          <6>2. t[k] = c[i]  BY <1>7, <6>1
          <6>. QED  BY <4>2, <4>4, <6>1, <6>2
        <5>3. k <= Len(b) \/ k > Len(b)  BY <1>5
        <5>. QED  BY <5>1, <5>2, <5>3
      <4>6. CASE Len(s) <= Len(t)
        <5>1. \A k \in 1..Len(s) : t[k] = s[k]
          <6>1. \A k \in 1..Len(s) : k <= Len(t)  BY <1>0, <1>5, <1>7, <4>6
          <6>. QED  BY <4>5, <6>1
        <5>. QED  BY <1>7, <1>17, <4>6, <5>1, AtFirst
      <4>7. CASE Len(t) < Len(s)
        <5>1. Masked(t, s) = t  BY <1>7, <4>7, TooShort, MaskNothing
        <5>2. Begins(t, s)
          <6>1. Len(t) \in 0..Len(s)  BY <1>0, <1>5, <1>7, <4>7
          <6>2. Take(s, Len(t)) \in Text /\ Len(Take(s, Len(t))) = Len(t)
                /\ \A i \in 1..Len(t) : Take(s, Len(t))[i] = s[i]
            BY <1>5, <6>1, TakeIs
          <6>3. \A i \in 1..Len(t) : i \in 1..Len(s) /\ i <= Len(t)  BY <6>1
          <6>4. \A i \in 1..Len(t) : t[i] = Take(s, Len(t))[i]  BY <4>5, <6>2, <6>3
          <6>5. t = Take(s, Len(t))  BY <1>7, <6>2, <6>4, SameText
          <6>. QED  BY <4>7, <6>5 DEF Begins
        <5>3. t = <<>> \o t /\ <<>> \in Text  BY <1>7, JoinsAre, LettersAre
        <5>4. Len(t) <= Len(c)  BY <1>7, <1>9, <5>1, <5>2, <5>3 DEF NoLonger
        <5>. QED  BY <1>0, <1>5, <1>7, <1>13, <5>4
      <4>8. Len(s) <= Len(t) \/ Len(t) < Len(s)  BY <1>0, <1>5, <1>7
      <4>. QED  BY <4>6, <4>7, <4>8
    <3>6. Len(s) <= Len(b) \/ Len(s) > Len(b)  BY <1>5
    <3>. QED  BY <3>4, <3>5, <3>6
  <2>7. Masked(w, s) = h \o Masked(Drop(w, 1), s)
    <3>1. Masked(w, s) = <<w[1]>> \o Masked(Drop(w, 1), s)  BY <1>8, <1>15, <2>6, MaskedStep
    <3>. QED  BY <1>15, <3>1
  <2>. QED  BY <1>13, <1>14, <2>1, <2>2, <2>5, <2>7
<1>. QED  BY <1>16, <1>17

LEMMA MaskGoes ==
  ASSUME NEW s \in Words, NEW c \in Plain, ~Occurs(s, c), NEW v \in Text, Follows(v, c),
         NEW t, NEW w, Goes(t, w, c, v), EndsWith(Masked(t, s), c), NoLonger(Masked(t, s), s, c)
  PROVE  Goes(Masked(t, s), Masked(w, s), c, Masked(v, s))
<1>1. PICK y \in Text : t = y \o c /\ w = y \o v  BY DEF Goes
<1>2. EndsWith(Masked(y \o c, s), c) /\ NoLonger(Masked(y \o c, s), s, c)  BY <1>1
<1>3. Goes(Masked(y \o c, s), Masked(y \o v, s), c, Masked(v, s))  BY <1>2, MaskSplits
<1>. QED  BY <1>1, <1>3

-----------------------------------------------------------------------------
(* Masking one secret after the other.                                     *)

\* Induction up to a number.
LEMMA UpTo ==
  ASSUME NEW N \in Nat, NEW G, 0 \in G, \A i \in 1..N : i - 1 \in G => i \in G
  PROVE  \A i \in 0..N : i \in G
<1>. DEFINE Bad == {i \in 0..N : i \notin G}
<1>1. SUFFICES ASSUME Bad # {}  PROVE FALSE  OBVIOUS
<1>2. Bad \subseteq Nat  OBVIOUS
<1>3. PICK i \in Bad : \A j \in Bad : i <= j
  <2>. HIDE DEF Bad
  <2>. QED  BY <1>1, <1>2, LeastNumber
<1>4. i \in 0..N /\ i \notin G  OBVIOUS
<1>5. i \in 1..N /\ i - 1 \in 0..N /\ ~(i <= i - 1)  BY <1>4
<1>6. i - 1 \notin Bad
  <2>. HIDE DEF Bad
  <2>. QED  BY <1>3, <1>5
<1>. QED  BY <1>4, <1>5, <1>6

\* A function can be given its values one after the other.
Leads(F, N, V) == \A i \in 1..N : \A v \in V : F[<<i, v>>] \in V
Stepped(F, N, V, first) ==
  \E f \in [0..N -> V] : f[0] = first /\ \A i \in 1..N : f[i] = F[<<i, f[i - 1]>>]

LEMMA StepByStep ==
  ASSUME NEW N \in Nat, NEW V, NEW first \in V, NEW F, Leads(F, N, V)
  PROVE  Stepped(F, N, V, first)
<1>. DEFINE Made(n) == \E f \in [0..n -> V] : f[0] = first /\ \A i \in 1..n : f[i] = F[<<i, f[i - 1]>>]
            G == {n \in 0..N : Made(n)}
<1>1. Made(0)
  <2>. DEFINE f == [i \in 0..0 |-> first]
  <2>1. f \in [0..0 -> V] /\ f[0] = first /\ \A i \in 1..0 : f[i] = F[<<i, f[i - 1]>>]  OBVIOUS
  <2>. QED  BY <2>1
<1>2. ASSUME NEW n \in 1..N, Made(n - 1)
      PROVE  Made(n)
  <2>1. PICK f \in [0..(n - 1) -> V] : f[0] = first /\ \A i \in 1..(n - 1) : f[i] = F[<<i, f[i - 1]>>]
    BY <1>2
  <2>. DEFINE g == [i \in 0..n |-> IF i = n THEN F[<<n, f[n - 1]>>] ELSE f[i]]
  <2>2. n - 1 \in 0..(n - 1) /\ f[n - 1] \in V  BY <2>1
  <2>3. F[<<n, f[n - 1]>>] \in V  BY <2>2 DEF Leads
  <2>4. \A i \in 0..n : i = n \/ i \in 0..(n - 1)  OBVIOUS
  <2>5. g \in [0..n -> V]  BY <2>3, <2>4
  <2>6. g[n] = F[<<n, f[n - 1]>>] /\ \A i \in 0..(n - 1) : g[i] = f[i]  OBVIOUS
  <2>. HIDE DEF g
  <2>7. g[0] = first
    <3>1. 0 \in 0..(n - 1)  OBVIOUS
    <3>. QED  BY <2>1, <2>6, <3>1
  <2>8. \A i \in 1..n : g[i] = F[<<i, g[i - 1]>>]
    <3>1. TAKE i \in 1..n
    <3>2. i - 1 \in 0..(n - 1)  OBVIOUS
    <3>3. g[i - 1] = f[i - 1]  BY <2>6, <3>2
    <3>4. CASE i = n  BY <2>6, <3>3, <3>4
    <3>5. CASE i # n
      <4>1. i \in 1..(n - 1) /\ i \in 0..(n - 1)  BY <3>5
      <4>. QED  BY <2>1, <2>6, <3>3, <4>1
    <3>. QED  BY <3>4, <3>5
  <2>. QED  BY <2>5, <2>7, <2>8
<1>. HIDE DEF Made
<1>3. 0 \in G /\ \A i \in 1..N : i - 1 \in G => i \in G
  <2>1. \A i \in 1..N : i - 1 \in G => Made(i)  BY <1>2
  <2>. QED  BY <1>1, <2>1
<1>4. N \in G
  <2>1. N \in 0..N  OBVIOUS
  <2>. HIDE DEF G
  <2>. QED  BY <1>3, <2>1, UpTo
<1>. QED  BY <1>4 DEF Made, Stepped

\* What Redact does with the list of the secrets.
RedactBy(q, t) ==
  LET after[i \in 0..Len(q)] == IF i = 0 THEN t ELSE Masked(after[i - 1], q[i])
  IN  after[Len(q)]
Passes(q, t, a) ==
  /\ a \in [0..Len(q) -> Text] /\ a[0] = t
  /\ \A i \in 1..Len(q) : a[i] = Masked(a[i - 1], q[i])

LEMMA RedactIs ==
  ASSUME NEW q \in Seq(Words), NEW t \in Text
  PROVE  \E a : Passes(q, t, a) /\ RedactBy(q, t) = a[Len(q)]
<1>. DEFINE N == Len(q)
            IsAfter(a) == a = [i \in 0..N |-> IF i = 0 THEN t ELSE Masked(a[i - 1], q[i])]
            a == CHOOSE a : IsAfter(a)
<1>1. RedactBy(q, t) = a[N]  BY DEF RedactBy
<1>2. N \in Nat /\ \A i \in 1..N : q[i] \in Words  OBVIOUS
<1>3. \E f : IsAfter(f)
  <2>. DEFINE F == [p \in (1..N) \X Text |-> Masked(p[2], q[p[1]])]
  <2>. HIDE DEF N
  <2>1. \A i \in 1..N : \A v \in Text : F[<<i, v>>] = Masked(v, q[i]) /\ F[<<i, v>>] \in Text
    <3>1. \A i \in 1..N : \A v \in Text : Masked(v, q[i]) \in Text  BY <1>2, MaskedStep
    <3>. QED  BY <3>1
  <2>. HIDE DEF F
  <2>2. PICK f \in [0..N -> Text] : f[0] = t /\ \A i \in 1..N : f[i] = F[<<i, f[i - 1]>>]
    <3>1. N \in Nat /\ Leads(F, N, Text)  BY <1>2, <2>1 DEF Leads
    <3>2. Stepped(F, N, Text, t)  BY <3>1, StepByStep
    <3>. QED  BY <3>2, Zenon DEF Stepped
  <2>3. \A i \in 1..N : f[i] = Masked(f[i - 1], q[i])
    <3>1. \A i \in 1..N : i - 1 \in 0..N  BY <1>2
    <3>2. \A i \in 1..N : f[i - 1] \in Text  BY <2>2, <3>1
    <3>. QED  BY <2>1, <2>2, <3>2
  <2>4. \A i \in 0..N : i = 0 \/ i \in 1..N  BY <1>2
  <2>5. f = [i \in 0..N |-> IF i = 0 THEN t ELSE Masked(f[i - 1], q[i])]
    <3>1. \A i \in 0..N : f[i] = IF i = 0 THEN t ELSE Masked(f[i - 1], q[i])  BY <2>2, <2>3, <2>4
    <3>. QED  BY <2>2, <3>1
  <2>. QED  BY <2>5
<1>4. IsAfter(a)
  <2>. HIDE DEF IsAfter
  <2>. QED  BY <1>3
<1>. HIDE DEF a, N
<1>5. a[0] = t /\ \A i \in 1..N : a[i] = Masked(a[i - 1], q[i])
  <2>1. 0 \in 0..N /\ \A i \in 1..N : i \in 0..N /\ i # 0  BY <1>2
  <2>. QED  BY <1>4, <2>1
<1>6. \A i \in 0..N : a[i] \in Text
  <2>. DEFINE G == {i \in 0..N : a[i] \in Text}
  <2>1. 0 \in G  BY <1>2, <1>5
  <2>2. \A i \in 1..N : i - 1 \in G => i \in G
    <3>1. TAKE i \in 1..N
    <3>2. HAVE i - 1 \in G
    <3>3. Masked(a[i - 1], q[i]) \in Text  BY <1>2, <3>2, MaskedStep
    <3>. QED  BY <1>2, <1>5, <3>3
  <2>. HIDE DEF G
  <2>3. \A i \in 0..N : i \in G  BY <1>2, <2>1, <2>2, UpTo
  <2>. QED  BY <2>3 DEF G
<1>7. a \in [0..N -> Text]  BY <1>4, <1>6
<1>. QED  BY <1>1, <1>5, <1>7 DEF Passes, N

LEMMA PassesAre ==
  ASSUME NEW q \in Seq(Words), NEW t, NEW a, Passes(q, t, a), NEW i \in 1..Len(q)
  PROVE  /\ Len(q) \in Nat /\ q[i] \in Words /\ i \in 0..Len(q) /\ i - 1 \in 0..Len(q)
         /\ a[i] \in Text /\ a[i - 1] \in Text /\ a[i] = Masked(a[i - 1], q[i])
<1>1. Len(q) \in Nat /\ q[i] \in Words  OBVIOUS
<1>2. i \in 0..Len(q) /\ i - 1 \in 0..Len(q)  BY <1>1
<1>. QED  BY <1>1, <1>2 DEF Passes

\* The beginnings that are plain are kept, one secret after the other.
LEMMA PassesFront ==
  ASSUME NEW q \in Seq(Words), NEW t \in Text, NEW a, Passes(q, t, a)
  PROVE  \A i \in 0..Len(q) : a[i] \in Text /\ PlainFront(a[i], t)
<1>. DEFINE N == Len(q)
            G == {i \in 0..N : a[i] \in Text /\ PlainFront(a[i], t)}
<1>1. N \in Nat  OBVIOUS
<1>2. 0 \in G
  <2>1. a[0] = t /\ PlainFront(t, t)  BY LettersOf DEF Passes, PlainFront
  <2>. QED  BY <1>1, <2>1
<1>3. \A i \in 1..N : i - 1 \in G => i \in G
  <2>1. TAKE i \in 1..N
  <2>2. HAVE i - 1 \in G
  <2>3. /\ q[i] \in Words /\ i \in 0..Len(q) /\ a[i] \in Text /\ a[i - 1] \in Text
        /\ a[i] = Masked(a[i - 1], q[i])
    BY PassesAre
  <2>4. PlainFront(a[i], a[i - 1])  BY <2>3, MaskFront
  <2>. QED  BY <2>2, <2>3, <2>4, FrontMoves
<1>. HIDE DEF G, N
<1>4. \A i \in 0..N : i \in G  BY <1>1, <1>2, <1>3, UpTo
<1>. QED  BY <1>4 DEF G, N

\* No secret is in the text once it was masked, whatever is masked after it.
LEMMA PassesClean ==
  ASSUME NEW q \in Seq(Words), NEW t \in Text, NEW a, Passes(q, t, a), NEW n \in 1..Len(q)
  PROVE  \A i \in n..Len(q) : ~Occurs(q[n], a[i])
<1>. DEFINE N == Len(q)
            G == {i \in 0..N : i >= n => ~Occurs(q[n], a[i])}
<1>1. N \in Nat /\ n \in 1..N /\ q[n] \in Words  OBVIOUS
<1>2. 0 \in G  BY <1>1
<1>3. \A i \in 1..N : i - 1 \in G => i \in G
  <2>1. TAKE i \in 1..N
  <2>2. HAVE i - 1 \in G
  <2>3. q[i] \in Words /\ i \in 0..N /\ a[i - 1] \in Text /\ a[i] = Masked(a[i - 1], q[i])  BY PassesAre
  <2>4. CASE i = n
    <3>1. ~Occurs(q[n], a[i])  BY <2>3, <2>4, MaskCleans
    <3>. QED  BY <2>3, <3>1
  <2>5. CASE i < n  BY <2>3, <2>5
  <2>6. CASE i > n
    <3>1. i - 1 >= n  BY <1>1, <2>6
    <3>2. ~Occurs(q[n], a[i - 1])  BY <2>2, <3>1
    <3>3. ~Occurs(q[n], a[i])  BY <1>1, <2>3, <3>2, MaskCleans
    <3>. QED  BY <2>3, <3>3
  <2>7. i = n \/ i < n \/ i > n  BY <1>1
  <2>. QED  BY <2>4, <2>5, <2>6, <2>7
<1>. HIDE DEF G
<1>4. \A i \in 0..N : i \in G  BY <1>1, <1>2, <1>3, UpTo
<1>5. \A i \in n..N : i \in 0..N /\ i >= n  BY <1>1
<1>. QED  BY <1>4, <1>5 DEF G

\* The beginning of a word that another does not overlap is left at the end of a text.
LEMMA MaskKeepsBeginning ==
  ASSUME NEW s \in Words, NEW w \in Words, ~Overlap(s, w), NEW u \in Text, Begins(u, w), NEW x \in Text
  PROVE  \E z \in Text : Masked(x \o u, s) = z \o u
<1>1. s \in Text /\ w \in Text /\ Len(s) \in Nat /\ Len(w) \in Nat /\ Len(u) \in Nat  BY WordIs, LettersOf
<1>2. Len(u) \in 0..Len(w) /\ u = Take(w, Len(u))  BY <1>1 DEF Begins
<1>3. ~Occurs(s, u)
  <2>1. SUFFICES ASSUME Occurs(s, u)  PROVE FALSE  OBVIOUS
  <2>2. Drop(w, Len(u)) \in Text /\ u \o Drop(w, Len(u)) = w
    <3>1. Take(w, Len(u)) \o Drop(w, Len(u)) = w  BY <1>1, <1>2, TakeDrop
    <3>. QED  BY <1>1, <1>2, <3>1, DropIs
  <2>3. Occurs(s, u \o Drop(w, Len(u)))  BY <2>1, <2>2, OccursJoined
  <2>. QED  BY <2>2, <2>3 DEF Overlap
<1>4. ASSUME NEW n \in 1..Len(s), n <= Len(u), Drop(s, Len(s) - n) = Take(u, n)
      PROVE  FALSE
  <2>1. n \in 0..Len(u) /\ n \in 0..Len(w) /\ n <= Len(w)  BY <1>1, <1>2, <1>4
  <2>2. Take(u, n) \in Text /\ Len(Take(u, n)) = n /\ \A i \in 1..n : Take(u, n)[i] = u[i]  BY <2>1, TakeIs
  <2>3. Take(w, n) \in Text /\ Len(Take(w, n)) = n /\ \A i \in 1..n : Take(w, n)[i] = w[i]
    BY <1>1, <2>1, TakeIs
  <2>4. \A i \in 1..n : u[i] = w[i]
    <3>1. \A i \in 1..Len(u) : Take(w, Len(u))[i] = w[i]  BY <1>1, <1>2, TakeIs
    <3>2. \A i \in 1..n : i \in 1..Len(u)  BY <2>1
    <3>. QED  BY <1>2, <3>1, <3>2
  <2>5. Take(u, n) = Take(w, n)  BY <2>2, <2>3, <2>4, SameText
  <2>6. SubSeq(s, Len(s) - n + 1, Len(s)) = SubSeq(w, 1, n)
    <3>1. Drop(s, Len(s) - n) = Take(w, n)  BY <1>4, <2>5
    <3>. QED  BY <3>1 DEF Drop, Take
  <2>. QED  BY <1>4, <2>1, <2>6 DEF Overlap
<1>. QED  BY <1>3, <1>4, MaskKeepsEnd

LEMMA MaskKeepsEnds ==
  ASSUME NEW s \in Words, NEW w \in Words, ~Overlap(s, w), NEW u \in Text, Begins(u, w),
         NEW t, EndsWith(t, u)
  PROVE  EndsWith(Masked(t, s), u)
<1>1. PICK x \in Text : t = x \o u  BY DEF EndsWith
<1>2. \E z \in Text : Masked(x \o u, s) = z \o u  BY MaskKeepsBeginning
<1>. QED  BY <1>1, <1>2 DEF EndsWith

ApartIn(q) == \A i, j \in 1..Len(q) : q[i] # q[j] => ~Overlap(q[i], q[j])

\* What a text ends with that a secret may begin with is left by what is masked later.
LEMMA PassesKeepBeginning ==
  ASSUME NEW q \in Seq(Words), ApartIn(q), NEW t \in Text, NEW a, Passes(q, t, a), NEW n \in 1..Len(q),
         NEW u \in Text, Begins(u, q[n]), EndsWith(a[n], u)
  PROVE  EndsWith(a[Len(q)], u)
<1>. DEFINE N == Len(q)
            G == {i \in 0..N : i >= n => EndsWith(a[i], u)}
<1>1. N \in Nat /\ n \in 1..N /\ q[n] \in Words  OBVIOUS
<1>2. 0 \in G  BY <1>1
<1>3. \A i \in 1..N : i - 1 \in G => i \in G
  <2>1. TAKE i \in 1..N
  <2>2. HAVE i - 1 \in G
  <2>3. q[i] \in Words /\ i \in 0..N /\ a[i - 1] \in Text /\ a[i] = Masked(a[i - 1], q[i])  BY PassesAre
  <2>4. CASE i = n  BY <2>3, <2>4
  <2>5. CASE i < n  BY <2>3, <2>5
  <2>6. CASE i > n
    <3>1. i - 1 >= n /\ i - 1 \in n..N  BY <1>1, <2>6
    <3>2. EndsWith(a[i - 1], u)  BY <2>2, <3>1
    <3>3. EndsWith(a[i], u)
      <4>1. CASE q[i] = q[n]
        <5>1. ~Occurs(q[n], a[i - 1])  BY <3>1, PassesClean
        <5>2. Masked(a[i - 1], q[i]) = a[i - 1]  BY <1>1, <2>3, <4>1, <5>1, MaskNothing
        <5>. QED  BY <2>3, <3>2, <5>2
      <4>2. CASE q[i] # q[n]
        <5>1. ~Overlap(q[i], q[n])  BY <4>2 DEF ApartIn
        <5>2. EndsWith(Masked(a[i - 1], q[i]), u)  BY <1>1, <2>3, <3>2, <5>1, MaskKeepsEnds
        <5>. QED  BY <2>3, <5>2
      <4>. QED  BY <4>1, <4>2
    <3>. QED  BY <2>3, <3>3
  <2>7. i = n \/ i < n \/ i > n  BY <1>1
  <2>. QED  BY <2>4, <2>5, <2>6, <2>7
<1>4. N \in 0..N /\ N >= n  BY <1>1
<1>5. N \in G
  <2>. HIDE DEF G
  <2>1. \A i \in 0..N : i \in G  BY <1>1, <1>2, <1>3, UpTo
  <2>. QED  BY <1>4, <2>1
<1>. QED  BY <1>4, <1>5

\* What comes out of t is x and c, the longest end of it that a secret may begin with.
ComesApart(q, t, x, c) ==
  RedactBy(q, t) = x \o c /\ \A i \in 1..Len(q) : NoLonger(RedactBy(q, t), q[i], c)

\* Up to an end that is held back, what comes out does not change with what follows:
\* provided that the secrets stay apart and the end is the longest any may begin with.
LEMMA RedactSplits ==
  ASSUME NEW q \in Seq(Words), ApartIn(q), NEW t \in Text, NEW e \in Text, NEW c \in Plain,
         NEW x \in Text, ComesApart(q, t, x, c)
  PROVE  RedactBy(q, t \o e) = x \o RedactBy(q, c \o e)
<1>a. RedactBy(q, t) = x \o c /\ \A i \in 1..Len(q) : NoLonger(RedactBy(q, t), q[i], c)
  BY DEF ComesApart
<1>0. c \in Text /\ t \o e \in Text /\ c \o e \in Text  BY PlainIs, JoinIs
<1>1. PICK a : Passes(q, t, a) /\ RedactBy(q, t) = a[Len(q)]  BY RedactIs
<1>2. PICK f : Passes(q, t \o e, f) /\ RedactBy(q, t \o e) = f[Len(q)]  BY <1>0, RedactIs
<1>3. PICK g : Passes(q, c \o e, g) /\ RedactBy(q, c \o e) = g[Len(q)]  BY <1>0, RedactIs
<1>. DEFINE N == Len(q)
<1>4. N \in Nat /\ \A i \in 1..N : q[i] \in Words  OBVIOUS
<1>. HIDE DEF N
<1>5. \A i \in 0..N : a[i] \in Text /\ f[i] \in Text /\ g[i] \in Text  BY <1>1, <1>2, <1>3 DEF Passes, N
\* The end is there before each pass.
<1>6. \A i \in 0..N : EndsWith(a[i], c)
  <2>. DEFINE G == {i \in 0..N : EndsWith(a[N - i], c)}
  <2>1. 0 \in G
    <3>1. N - 0 = N /\ 0 \in 0..N  BY <1>4
    <3>2. a[N] = x \o c  BY <1>a, <1>1 DEF N
    <3>3. EndsWith(a[N], c)  BY <3>2 DEF EndsWith
    <3>. QED  BY <3>1, <3>3
  <2>2. \A i \in 1..N : i - 1 \in G => i \in G
    <3>1. TAKE i \in 1..N
    <3>2. HAVE i - 1 \in G
    <3>. DEFINE k == N - (i - 1)
    <3>3. k \in 1..N /\ k - 1 = N - i /\ i \in 0..N  BY <1>4
    <3>4. EndsWith(a[k], c)  BY <3>2
    <3>. HIDE DEF k, G
    <3>5. q[k] \in Words /\ a[k - 1] \in Text /\ a[k] = Masked(a[k - 1], q[k])
      BY <1>1, <3>3, PassesAre DEF N
    <3>6. EndsWith(a[k - 1], c)  BY <3>4, <3>5, MaskBack
    <3>. QED  BY <3>3, <3>6 DEF G
  <2>. HIDE DEF G
  <2>3. \A i \in 0..N : i \in G  BY <1>4, <2>1, <2>2, UpTo
  <2>4. TAKE i \in 0..N
  <2>5. N - i \in 0..N /\ N - (N - i) = i  BY <1>4
  <2>6. N - i \in G  BY <2>3, <2>5
  <2>. QED  BY <2>5, <2>6 DEF G
\* And no secret may begin with a longer one after its pass.
<1>7. \A i \in 1..N : NoLonger(a[i], q[i], c)
  <2>1. SUFFICES ASSUME NEW i \in 1..N, NEW y \in Text, NEW u \in Text, a[i] = y \o u, Begins(u, q[i])
                 PROVE  Len(u) <= Len(c)
    BY DEF NoLonger
  <2>2. EndsWith(a[N], u)
    <3>1. EndsWith(a[i], u) /\ i \in 1..Len(q)  BY <2>1 DEF EndsWith, N
    <3>2. EndsWith(a[Len(q)], u)  BY <1>1, <2>1, <3>1, PassesKeepBeginning
    <3>. QED  BY <3>2 DEF N
  <2>3. NoLonger(a[N], q[i], c)  BY <1>a, <1>1 DEF N
  <2>. QED  BY <2>1, <2>2, <2>3 DEF NoLonger, EndsWith
<1>8. \A i \in 1..N : ~Occurs(q[i], c)
  <2>1. SUFFICES ASSUME NEW i \in 1..N, Occurs(q[i], c)  PROVE FALSE  OBVIOUS
  <2>2. N \in i..N  BY <1>4
  <2>3. ~Occurs(q[i], a[N])  BY <1>1, <2>2, PassesClean DEF N
  <2>4. Occurs(q[i], x \o c)  BY <1>0, <1>4, <2>1, OccursJoined
  <2>. QED  BY <1>a, <1>1, <2>3, <2>4 DEF N
<1>9. \A i \in 0..N : Follows(g[i], c)
  <2>1. SUFFICES ASSUME NEW i \in 0..N, NEW n \in 0..Len(g[i]), PlainTo(g[i], n),
                        NEW k \in 1..n, k <= Len(c)
                 PROVE  g[i][k] = c[k]
    BY DEF Follows
  <2>2. PlainFront(g[i], c \o e)  BY <1>0, <1>3, PassesFront DEF N
  <2>3. g[i][k] = (c \o e)[k]  BY <2>1, <2>2 DEF PlainFront
  <2>4. k \in 1..Len(c)  BY <1>0, <2>1, LettersOf
  <2>5. (c \o e)[k] = c[k]  BY <1>0, <2>4, JoinIs
  <2>. QED  BY <2>3, <2>5
\* So both go the same way, pass by pass.
<1>. DEFINE Same(i) == Goes(a[i], f[i], c, g[i])
            G == {i \in 0..N : Same(i)}
<1>10. Same(0)
  <2>1. 0 \in 0..N  BY <1>4
  <2>2. PICK y \in Text : a[0] = y \o c  BY <1>6, <2>1 DEF EndsWith
  <2>3. t = y \o c /\ f[0] = t \o e /\ g[0] = c \o e  BY <1>1, <1>2, <1>3, <2>2 DEF Passes
  <2>4. (y \o c) \o e = y \o (c \o e)
    <3>1. Again(y, c, e)  BY <1>0, <2>2, JoinedAgain
    <3>. QED  BY <3>1 DEF Again
  <2>. QED  BY <2>2, <2>3, <2>4 DEF Goes
<1>11. ASSUME NEW i \in 1..N, Same(i - 1)
       PROVE  Same(i)
  <2>1. /\ q[i] \in Words /\ i \in 0..N /\ i - 1 \in 0..N
        /\ a[i] = Masked(a[i - 1], q[i])
    BY <1>1, PassesAre DEF N
  <2>2. f[i] = Masked(f[i - 1], q[i])  BY <1>0, <1>2, PassesAre DEF N
  <2>3. g[i] = Masked(g[i - 1], q[i])  BY <1>0, <1>3, PassesAre DEF N
  <2>4. EndsWith(Masked(a[i - 1], q[i]), c) /\ NoLonger(Masked(a[i - 1], q[i]), q[i], c)
    <3>1. EndsWith(a[i], c) /\ NoLonger(a[i], q[i], c)  BY <1>6, <1>7, <2>1
    <3>. QED  BY <2>1, <3>1
  <2>5. g[i - 1] \in Text /\ Follows(g[i - 1], c) /\ ~Occurs(q[i], c)  BY <1>5, <1>8, <1>9, <2>1
  <2>6. Goes(Masked(a[i - 1], q[i]), Masked(f[i - 1], q[i]), c, Masked(g[i - 1], q[i]))
    BY <1>11, <2>1, <2>4, <2>5, MaskGoes
  <2>. QED  BY <2>1, <2>2, <2>3, <2>6
<1>. HIDE DEF Same
<1>12. N \in G
  <2>1. \A i \in 1..N : i - 1 \in G => i \in G
    <3>1. \A i \in 1..N : i \in 0..N  BY <1>4
    <3>. QED  BY <1>11, <3>1
  <2>2. 0 \in G  BY <1>4, <1>10
  <2>. HIDE DEF G
  <2>3. N \in 0..N  BY <1>4
  <2>. QED  BY <1>4, <2>1, <2>2, <2>3, UpTo
<1>13. PICK y \in Text : a[N] = y \o c /\ f[N] = y \o g[N]  BY <1>12 DEF Same, Goes
<1>14. y = x
  <2>1. y \o c = x \o c  BY <1>a, <1>1, <1>13 DEF N
  <2>. QED  BY <1>0, <2>1, Cancelled
<1>. QED  BY <1>2, <1>3, <1>13, <1>14 DEF N

-----------------------------------------------------------------------------
(* The list of the secrets, and what is held back for it.                  *)

SortedList(q, V) ==
  Range(q) = V /\ \A i, j \in DOMAIN q : i < j => Len(q[i]) >= Len(q[j])
SecretsOf(S) ==
  LET values == S \ {<<>>}
  IN  CHOOSE s \in [1..Cardinality(values) -> values] :
        Range(s) = values /\ \A i, j \in DOMAIN s : i < j => Len(s[i]) >= Len(s[j])

\* Any finite set of texts can be listed, the longest first: induction over its cardinality.
LEMMA SortedExists ==
  ASSUME NEW W, W \subseteq Text, IsFiniteSet(W)
  PROVE  \E q \in [1..Cardinality(W) -> W] : SortedList(q, W)
<1>. DEFINE N == Cardinality(W)
            G == {n \in 0..N : \A V \in SUBSET W : Cardinality(V) = n =>
                                 \E q \in [1..n -> V] : SortedList(q, V)}
<1>1. N \in Nat  BY FS_CardinalityType
<1>2. \A V \in SUBSET W : IsFiniteSet(V)  BY FS_Subset
<1>3. 0 \in G
  <2>1. ASSUME NEW V \in SUBSET W, Cardinality(V) = 0
        PROVE  \E q \in [1..0 -> V] : SortedList(q, V)
    <3>1. V = {}  BY <1>2, <2>1, FS_EmptySet
    <3>. DEFINE q == [i \in 1..0 |-> 0]
    <3>2. q \in [1..0 -> V] /\ DOMAIN q = {}  OBVIOUS
    <3>. HIDE DEF q
    <3>3. Range(q) = V  BY <3>1, <3>2 DEF Range
    <3>. QED  BY <3>2, <3>3 DEF SortedList
  <2>2. 0 \in 0..N  BY <1>1
  <2>. QED  BY <2>1, <2>2
<1>4. ASSUME NEW n \in 1..N, n - 1 \in G
      PROVE  n \in G
  <2>1. SUFFICES ASSUME NEW V \in SUBSET W, Cardinality(V) = n
                 PROVE  \E q \in [1..n -> V] : SortedList(q, V)
    <3>1. n \in 0..N  BY <1>1
    <3>. QED  BY <3>1
  <2>2. IsFiniteSet(V) /\ n # 0 /\ n \in Nat /\ V \subseteq Text  BY <1>1, <1>2
  <2>3. V # {}  BY <2>1, <2>2, FS_EmptySet
  <2>4. PICK w \in V : \A v \in V : Len(w) <= Len(v)  BY <2>2, <2>3, ShortestText
  <2>. DEFINE U == V \ {w}
  <2>5. Cardinality(U) = n - 1 /\ U \in SUBSET W
    <3>1. Cardinality(U) = Cardinality(V) - 1  BY <2>2, <2>4, FS_RemoveElement
    <3>. QED  BY <2>1, <3>1
  <2>6. PICK q \in [1..(n - 1) -> U] : SortedList(q, U)
    <3>. HIDE DEF U
    <3>. QED  BY <1>4, <2>5
  <2>. DEFINE p == [i \in 1..n |-> IF i = n THEN w ELSE q[i]]
  <2>7. \A i \in 1..n : i = n \/ i \in 1..(n - 1)  BY <2>2
  <2>8. \A i \in 1..(n - 1) : i \in 1..n /\ i # n  BY <2>2
  <2>9. p[n] = w /\ n \in 1..n /\ DOMAIN p = 1..n /\ \A i \in 1..(n - 1) : p[i] = q[i]  BY <2>2, <2>8
  <2>10. p \in [1..n -> V]  BY <2>4, <2>6, <2>7
  <2>. HIDE DEF p
  <2>11. Range(p) = V
    <3>1. Range(q) = U /\ DOMAIN q = 1..(n - 1)  BY <2>6 DEF SortedList
    <3>2. ASSUME NEW v \in V
          PROVE  v \in Range(p)
      <4>1. CASE v = w  BY <2>9, <4>1 DEF Range
      <4>2. CASE v # w
        <5>1. PICK i \in 1..(n - 1) : q[i] = v  BY <3>1, <4>2 DEF Range
        <5>. QED  BY <2>8, <2>9, <5>1 DEF Range
      <4>. QED  BY <4>1, <4>2
    <3>3. \A v \in Range(p) : v \in V  BY <2>10 DEF Range
    <3>. QED  BY <3>2, <3>3
  <2>12. ASSUME NEW i \in 1..n, NEW j \in 1..n, i < j
         PROVE  Len(p[i]) >= Len(p[j])
    <3>1. i \in 1..(n - 1)  BY <2>2, <2>12
    <3>2. Len(p[i]) \in Nat /\ Len(p[j]) \in Nat  BY <2>2, <2>10, LettersOf
    <3>3. CASE j = n
      <4>1. Len(w) <= Len(p[i])  BY <2>4, <2>10
      <4>. QED  BY <2>9, <3>2, <3>3, <4>1
    <3>4. CASE j # n
      <4>1. j \in 1..(n - 1) /\ DOMAIN q = 1..(n - 1)  BY <2>6, <2>7, <3>4
      <4>. QED  BY <2>6, <2>9, <2>12, <3>1, <4>1 DEF SortedList
    <3>. QED  BY <3>3, <3>4
  <2>13. SortedList(p, V)  BY <2>9, <2>11, <2>12 DEF SortedList
  <2>. QED  BY <2>10, <2>13
<1>. HIDE DEF G
<1>5. N \in G
  <2>1. \A i \in 0..N : i \in G  BY <1>1, <1>3, <1>4, UpTo
  <2>. QED  BY <1>1, <2>1
<1>. QED  BY <1>5 DEF G

LEMMA SecretsAre ==
  ASSUME NEW S \in SecretSets
  PROVE  /\ SecretsOf(S) \in Seq(Words)
         /\ \A i, j \in 1..Len(SecretsOf(S)) : i < j => Len(SecretsOf(S)[i]) >= Len(SecretsOf(S)[j])
<1>. DEFINE V == S \ {<<>>}
            n == Cardinality(V)
            q == SecretsOf(S)
<1>1. V \subseteq Words /\ IsFiniteSet(V)
  <2>1. IsFiniteSet(S) /\ \A s \in S : s \in Seq(Characters)  BY RedactionAssumption
  <2>2. IsFiniteSet(V)  BY <2>1, FS_Subset
  <2>. QED  BY <2>1, <2>2 DEF Words
<1>2. V \subseteq Text  BY <1>1, LettersAre
<1>3. n \in Nat  BY <1>1, FS_CardinalityType
<1>4. q \in [1..n -> V] /\ SortedList(q, V)
  <2>1. \E p \in [1..n -> V] : SortedList(p, V)
    <3>. HIDE DEF V
    <3>. QED  BY <1>1, <1>2, SortedExists
  <2>2. q = CHOOSE p \in [1..n -> V] : SortedList(p, V)  BY DEF SecretsOf, SortedList
  <2>. HIDE DEF q, n, V
  <2>. QED  BY <2>1, <2>2
<1>. HIDE DEF q, n, V
<1>5. q \in Seq(Words) /\ Len(q) = n /\ DOMAIN q = 1..n
  <2>1. q \in [1..n -> Words]  BY <1>1, <1>4
  <2>. QED  BY <1>3, <2>1
<1>6. q \in Seq(Words) /\ \A i, j \in 1..Len(q) : i < j => Len(q[i]) >= Len(q[j])
  BY <1>4, <1>5 DEF SortedList
<1>. QED  BY <1>6 DEF q

\* A set of naturals that are not above a number has a greatest.
LEMMA MaxIs ==
  ASSUME NEW N \in Nat, NEW T \in SUBSET (0..N), T # {}
  PROVE  Max(T) \in T /\ \A y \in T : y <= Max(T)
<1>. DEFINE R == {N - x : x \in T}
<1>1. R \subseteq Nat /\ R # {}
  <2>1. \A x \in T : N - x \in Nat
    <3>1. \A x \in 0..N : N - x \in Nat  OBVIOUS
    <3>. QED  BY <3>1
  <2>2. R \subseteq Nat  BY <2>1
  <2>3. R # {}  OBVIOUS
  <2>. QED  BY <2>2, <2>3
<1>2. PICK r \in R : \A y \in R : r <= y
  <2>. HIDE DEF R
  <2>. QED  BY <1>1, LeastNumber
<1>3. PICK x \in T : r = N - x  OBVIOUS
<1>4. \A y \in T : x >= y
  <2>1. TAKE y \in T
  <2>2. N - y \in R  OBVIOUS
  <2>3. r <= N - y
    <3>. HIDE DEF R
    <3>. QED  BY <1>2, <2>2
  <2>. QED  BY <1>3, <2>3
<1>5. Max(T) = CHOOSE m \in T : \A y \in T : m >= y  BY DEF Max
<1>6. Max(T) \in T /\ \A y \in T : Max(T) >= y  BY <1>4, <1>5
<1>. QED  BY <1>6

HoldBy(q, t) ==
  Max({0} \cup {n \in 1..Len(t) :
        \E i \in DOMAIN q : n < Len(q[i]) /\ SubSeq(t, Len(t) - n + 1, Len(t)) = SubSeq(q[i], 1, n)})

\* What is held back is the longest end that a secret may begin with.
LEMMA HoldIs ==
  ASSUME NEW q \in Seq(Words), NEW t \in Text
  PROVE  /\ HoldBy(q, t) \in 0..Len(t)
         /\ Drop(t, Len(t) - HoldBy(q, t)) \in Plain
         /\ Drop(t, Len(t) - HoldBy(q, t)) # <<>> =>
              \E i \in 1..Len(q) : Begins(Drop(t, Len(t) - HoldBy(q, t)), q[i])
         /\ \A i \in 1..Len(q) : NoLonger(t, q[i], Drop(t, Len(t) - HoldBy(q, t)))
<1>. DEFINE l == Len(t)
            T == {0} \cup {n \in 1..l : \E i \in DOMAIN q : n < Len(q[i]) /\ SubSeq(t, l - n + 1, l) = SubSeq(q[i], 1, n)}
            m == HoldBy(q, t)
            c == Drop(t, l - m)
<1>1. l \in Nat /\ DOMAIN q = 1..Len(q) /\ \A i \in 1..Len(q) : q[i] \in Words  BY LettersOf
<1>2. m \in T /\ \A n \in T : n <= m
  <2>1. m = Max(T)  BY DEF HoldBy
  <2>2. T \in SUBSET (0..l) /\ T # {}  BY <1>1
  <2>. HIDE DEF T, l, m
  <2>. QED  BY <1>1, <2>1, <2>2, MaxIs
<1>3. m \in 0..l /\ l - m \in 0..l
  <2>. HIDE DEF m
  <2>. QED  BY <1>1, <1>2
<1>4. c \in Text /\ Len(c) = m
  <2>. HIDE DEF m
  <2>1. c \in Text /\ Len(c) = l - (l - m)  BY <1>3, DropIs
  <2>. QED  BY <1>1, <1>3, <2>1
<1>. HIDE DEF m
<1>5. <<>> \in Plain  BY DEF Plain
<1>6. ASSUME m # 0
      PROVE  \E i \in 1..Len(q) : Begins(c, q[i]) /\ c = Take(q[i], m)
  <2>1. PICK i \in 1..Len(q) : m < Len(q[i]) /\ SubSeq(t, l - m + 1, l) = SubSeq(q[i], 1, m)
    BY <1>1, <1>2, <1>6
  <2>2. c = Take(q[i], m)  BY <2>1 DEF Take, Drop
  <2>. HIDE DEF c
  <2>. QED  BY <1>4, <2>1, <2>2 DEF Begins
<1>7. c \in Plain
  <2>1. CASE m = 0
    <3>1. c = <<>>  BY <1>4, <2>1
    <3>. QED  BY <1>5, <3>1, Zenon
  <2>2. CASE m # 0
    <3>1. PICK i \in 1..Len(q) : Begins(c, q[i]) /\ c = Take(q[i], m)  BY <1>6, <2>2
    <3>. HIDE DEF c
    <3>2. q[i] \in Words /\ m < Len(q[i])  BY <1>1, <1>4, <3>1 DEF Begins
    <3>3. q[i] \in Plain /\ Len(q[i]) \in Nat  BY <3>2 DEF Words, Plain
    <3>4. \A k \in 1..m : q[i][k] \in Characters  BY <1>3, <3>2, <3>3 DEF Plain
    <3>5. SubSeq(q[i], 1, m) \in Seq(Characters)  BY <1>3, <3>2, <3>3, <3>4 DEF Plain
    <3>. QED  BY <3>1, <3>5 DEF Plain, Take
  <2>. QED  BY <2>1, <2>2
<1>8. ASSUME NEW i \in 1..Len(q), NEW x \in Text, NEW u \in Text, t = x \o u, Begins(u, q[i])
      PROVE  Len(u) <= Len(c)
  <2>. DEFINE n == Len(u)
  <2>1. n \in Nat /\ Len(x) \in Nat /\ l = Len(x) + n
    <3>1. Len(x \o u) = Len(x) + Len(u)  BY JoinIs
    <3>. QED  BY <1>8, <3>1, LettersOf
  <2>2. CASE n = 0  BY <1>3, <1>4, <2>2
  <2>3. CASE n # 0
    <3>1. n \in 1..l /\ l - n = Len(x)  BY <2>1, <2>3
    <3>2. Drop(t, Len(x)) = u  BY <1>8, DropFirst
    <3>3. n < Len(q[i]) /\ u = Take(q[i], n)  BY <1>8 DEF Begins
    <3>4. SubSeq(t, l - n + 1, l) = SubSeq(q[i], 1, n)
      <4>1. Drop(t, l - n) = Take(q[i], n)  BY <3>1, <3>2, <3>3
      <4>. QED  BY <4>1 DEF Drop, Take
    <3>. HIDE DEF n, l, c
    <3>5. n \in T  BY <1>1, <3>1, <3>3, <3>4
    <3>. HIDE DEF T
    <3>6. n <= m  BY <1>2, <3>5
    <3>. QED  BY <1>4, <3>6 DEF n
  <2>. QED  BY <2>2, <2>3
<1>9. \A i \in 1..Len(q) : NoLonger(t, q[i], c)
  <2>. HIDE DEF c
  <2>. QED  BY <1>8 DEF NoLonger
<1>10. c # <<>> => \E i \in 1..Len(q) : Begins(c, q[i])
  <2>1. c # <<>> => m # 0  BY <1>4
  <2>. QED  BY <1>6, <2>1
<1>. QED  BY <1>3, <1>7, <1>9, <1>10 DEF m

LEMMA RedactText ==
  ASSUME NEW q \in Seq(Words), NEW t \in Text
  PROVE  /\ RedactBy(q, t) \in Text /\ PlainFront(RedactBy(q, t), t)
         /\ \A i \in 1..Len(q) : ~Occurs(q[i], RedactBy(q, t))
<1>1. PICK a : Passes(q, t, a) /\ RedactBy(q, t) = a[Len(q)]  BY RedactIs
<1>2. Len(q) \in Nat /\ Len(q) \in 0..Len(q) /\ \A i \in 1..Len(q) : Len(q) \in i..Len(q)  OBVIOUS
<1>3. a[Len(q)] \in Text /\ PlainFront(a[Len(q)], t)  BY <1>1, <1>2, PassesFront
<1>4. \A i \in 1..Len(q) : ~Occurs(q[i], a[Len(q)])  BY <1>1, <1>2, PassesClean
<1>. QED  BY <1>1, <1>3, <1>4

\* What is held back before, as far as it goes, is what a word that was not in it reads.
LEMMA NoneComesIn ==
  ASSUME NEW s \in Words, NEW e \in Text, NEW c \in Plain, NEW d \in Text, NEW m \in Text,
         PlainFront(m, c \o d), ~Occurs(s, m), ~Occurs(s, e \o c), NoLonger(e \o c, s, c)
  PROVE  ~Occurs(s, e \o m)
<1>0. c \in Text  BY PlainIs
<1>. DEFINE w == e \o c
            v == e \o m
<1>1. /\ Len(e) \in Nat /\ Len(c) \in Nat /\ Len(d) \in Nat /\ Len(m) \in Nat
      /\ Len(s) \in Nat \ {0} /\ s \in Text
  BY <1>0, LettersOf, WordIs
<1>2. /\ w \in Text /\ Len(w) = Len(e) + Len(c) /\ (\A i \in 1..Len(e) : w[i] = e[i])
      /\ \A i \in 1..Len(c) : w[Len(e) + i] = c[i]
  BY <1>0, JoinIs
<1>3. /\ v \in Text /\ Len(v) = Len(e) + Len(m) /\ (\A i \in 1..Len(e) : v[i] = e[i])
      /\ \A i \in 1..Len(m) : v[Len(e) + i] = m[i]
  BY JoinIs
<1>4. ~Occurs(s, w) /\ NoLonger(w, s, c)  OBVIOUS
<1>5. \A i \in 1..Len(m) : At(m, s, i) <=> At(v, s, Len(e) + i)  BY AtJoin
<1>6. \A k \in 1..Len(c) : (c \o d)[k] = c[k]  BY <1>0, JoinIs
<1>. HIDE DEF w, v
<1>7. SUFFICES ASSUME Occurs(s, v)  PROVE FALSE  BY DEF v
<1>8. PICK p \in 1..Len(v) : At(v, s, p)  BY <1>3, <1>7, LettersOf DEF Occurs
<1>9. p \in Nat \ {0} /\ p + Len(s) - 1 <= Len(v) /\ \A k \in 1..Len(s) : v[p + k - 1] = s[k]
  BY <1>1, <1>3, <1>8, AtIs
<1>10. CASE p > Len(e)
  <2>1. p - Len(e) \in 1..Len(m) /\ Len(e) + (p - Len(e)) = p  BY <1>1, <1>3, <1>8, <1>10
  <2>2. At(m, s, p - Len(e))  BY <1>5, <1>8, <2>1
  <2>. QED  BY <2>1, <2>2, LettersOf DEF Occurs
<1>11. CASE p <= Len(e)
  \* As far as it goes, what was there reads the word.
  <2>1. ASSUME NEW k \in 1..Len(s), p + k - 1 <= Len(w)
        PROVE  w[p + k - 1] = s[k]
    <3>1. CASE p + k - 1 <= Len(e)
      <4>1. p + k - 1 \in 1..Len(e)  BY <1>9, <3>1
      <4>. QED  BY <1>2, <1>3, <1>9, <4>1
    <3>2. CASE p + k - 1 > Len(e)
      <4>. DEFINE n == p + k - 1 - Len(e)
      <4>1. n \in 1..Len(c) /\ n \in 1..Len(m) /\ n \in 0..Len(m) /\ p + k - 1 = Len(e) + n
        BY <1>1, <1>2, <1>3, <1>9, <2>1, <3>2
      <4>. HIDE DEF n
      <4>2. PlainTo(m, n)
        <5>1. SUFFICES ASSUME NEW j \in 1..n  PROVE m[j] \in Characters  BY DEF PlainTo
        <5>2. PICK h \in 1..Len(s) : p + h - 1 = Len(e) + j
          <6>1. Len(e) + j - p + 1 \in 1..Len(s) /\ p + (Len(e) + j - p + 1) - 1 = Len(e) + j
            BY <1>1, <1>9, <1>11, <2>1, <4>1
          <6>. QED  BY <6>1
        <5>3. j \in 1..Len(m)  BY <1>1, <4>1
        <5>4. m[j] = s[h]  BY <1>3, <1>9, <5>2, <5>3
        <5>. QED  BY <5>2, <5>4, WordIs
      <4>3. m[n] = (c \o d)[n]  BY <4>1, <4>2 DEF PlainFront
      <4>4. v[p + k - 1] = m[n] /\ w[p + k - 1] = c[n]  BY <1>2, <1>3, <4>1
      <4>. QED  BY <1>6, <1>9, <4>1, <4>3, <4>4
    <3>3. p + k - 1 <= Len(e) \/ p + k - 1 > Len(e)  BY <1>1, <1>9
    <3>. QED  BY <3>1, <3>2, <3>3
  <2>2. CASE p + Len(s) - 1 <= Len(w)
    <3>1. \A k \in 1..Len(s) : p + k - 1 <= Len(w)  BY <1>1, <1>2, <1>9, <2>2
    <3>2. At(w, s, p)  BY <1>2, <1>9, <2>1, <2>2, <3>1, AtIs
    <3>3. p \in 1..Len(w)  BY <1>1, <1>2, <1>9, <1>11
    <3>. QED  BY <1>2, <1>4, <3>2, <3>3, LettersOf DEF Occurs
  <2>3. CASE p + Len(s) - 1 > Len(w)
    <3>. DEFINE j == p - 1
                u == Drop(w, j)
    <3>1. j \in 0..Len(w)  BY <1>1, <1>2, <1>9, <1>11
    <3>2. u \in Text /\ Len(u) = Len(w) - j /\ \A i \in 1..(Len(w) - j) : u[i] = w[j + i]
      <4>. HIDE DEF j
      <4>. QED  BY <1>2, <3>1, DropIs
    <3>3. Take(w, j) \in Text /\ w = Take(w, j) \o u
      <4>. HIDE DEF j
      <4>. QED  BY <1>2, <3>1, TakeIs, TakeDrop
    <3>. HIDE DEF u
    <3>4. Len(u) < Len(s) /\ Len(u) \in 0..Len(s) /\ Len(u) = Len(w) - p + 1  BY <1>1, <1>2, <1>9, <1>11, <2>3, <3>2
    <3>5. \A i \in 1..Len(u) : u[i] = s[i]
      <4>1. TAKE i \in 1..Len(u)
      <4>2. i \in 1..Len(s) /\ p + i - 1 <= Len(w) /\ i \in 1..(Len(w) - j) /\ j + i = p + i - 1
        BY <1>1, <1>2, <1>9, <3>2, <3>4
      <4>. QED  BY <2>1, <3>2, <4>2
    <3>6. u = Take(s, Len(u))
      <4>1. Take(s, Len(u)) \in Text /\ Len(Take(s, Len(u))) = Len(u)
            /\ \A i \in 1..Len(u) : Take(s, Len(u))[i] = s[i]
        BY <1>1, <3>4, TakeIs
      <4>2. \A i \in 1..Len(u) : u[i] = Take(s, Len(u))[i]  BY <3>5, <4>1
      <4>. QED  BY <3>2, <4>1, <4>2, SameText
    <3>7. Begins(u, s)  BY <3>4, <3>6 DEF Begins
    <3>8. Len(u) <= Len(c)  BY <1>4, <3>2, <3>3, <3>7 DEF NoLonger
    <3>. QED  BY <1>1, <1>2, <1>9, <1>11, <3>4, <3>8
  <2>4. p + Len(s) - 1 <= Len(w) \/ p + Len(s) - 1 > Len(w)  BY <1>1, <1>2, <1>9
  <2>. QED  BY <2>2, <2>3, <2>4
<1>12. p > Len(e) \/ p <= Len(e)  BY <1>1, <1>9
<1>. QED  BY <1>10, <1>11, <1>12

\* Nor does an end of the whole that a word may begin with grow longer than what is held back.
LEMMA LongestStays ==
  ASSUME NEW s \in Words, NEW e \in Text, NEW c \in Plain, NEW d \in Text, NEW m \in Text, NEW b \in Text,
         PlainFront(m, c \o d), NoLonger(e \o c, s, c), NoLonger(m, s, b)
  PROVE  NoLonger(e \o m, s, b)
<1>0. c \in Text  BY PlainIs
<1>1. SUFFICES ASSUME NEW y \in Text, NEW u \in Text, e \o m = y \o u, Begins(u, s)
               PROVE  Len(u) <= Len(b)
  BY DEF NoLonger
<1>2. /\ Len(e) \in Nat /\ Len(c) \in Nat /\ Len(d) \in Nat /\ Len(m) \in Nat /\ Len(y) \in Nat
      /\ Len(u) \in Nat /\ Len(s) \in Nat \ {0} /\ s \in Text
  BY <1>0, LettersOf, WordIs
<1>3. Len(e) + Len(m) = Len(y) + Len(u)
  <2>1. Len(e \o m) = Len(e) + Len(m)  BY JoinIs
  <2>2. Len(y \o u) = Len(y) + Len(u)  BY JoinIs
  <2>. QED  BY <1>1, <2>1, <2>2
<1>4. Len(u) < Len(s) /\ Len(u) \in 0..Len(s) /\ \A k \in 1..Len(u) : u[k] = s[k]
  <2>1. Len(u) < Len(s) /\ u = Take(s, Len(u))  BY <1>1 DEF Begins
  <2>2. Len(u) \in 0..Len(s)  BY <1>2, <2>1
  <2>3. \A k \in 1..Len(u) : Take(s, Len(u))[k] = s[k]  BY <1>2, <2>2, TakeIs
  <2>. QED  BY <2>1, <2>2, <2>3
<1>5. CASE Len(u) <= Len(m)
  <2>1. Len(e) \in 0..Len(y)  BY <1>2, <1>3, <1>5
  <2>2. Drop(y \o u, Len(e)) = Drop(y, Len(e)) \o u /\ Drop(y, Len(e)) \in Text  BY <2>1, DropJoin, DropIs
  <2>3. Drop(e \o m, Len(e)) = m  BY DropFirst
  <2>4. m = Drop(y, Len(e)) \o u  BY <1>1, <2>2, <2>3
  <2>. QED  BY <1>1, <2>2, <2>4 DEF NoLonger
<1>6. CASE Len(u) > Len(m)
  <2>. DEFINE l == Len(y)
              g == Drop(e, l)
              f == Take(e, l)
  <2>1. l \in 0..Len(e) /\ l < Len(e)  BY <1>2, <1>3, <1>6
  <2>2. g \in Text /\ Len(g) = Len(e) - l /\ f \in Text /\ f \o g = e  BY <2>1, DropIs, TakeIs, TakeDrop
  <2>3. u = g \o m
    <3>1. Drop(e \o m, l) = g \o m  BY <2>1, DropJoin
    <3>2. Drop(y \o u, l) = u  BY DropFirst
    <3>. QED  BY <1>1, <3>1, <3>2
  <2>. HIDE DEF l, g, f
  <2>4. /\ Len(u) = Len(g) + Len(m) /\ (\A i \in 1..Len(g) : u[i] = g[i])
        /\ \A i \in 1..Len(m) : u[Len(g) + i] = m[i]
    <3>1. /\ Len(g \o m) = Len(g) + Len(m) /\ (\A i \in 1..Len(g) : (g \o m)[i] = g[i])
          /\ \A i \in 1..Len(m) : (g \o m)[Len(g) + i] = m[i]
      BY <2>2, JoinIs
    <3>. QED  BY <2>3, <3>1
  <2>5. Len(g) \in Nat \ {0}  BY <1>2, <2>1, <2>2
  \* All of m is plain, so it is what was held back and what came.
  <2>6. PlainTo(m, Len(m)) /\ Len(m) \in 0..Len(m)
    <3>1. \A k \in 1..Len(m) : Len(g) + k \in 1..Len(u) /\ Len(g) + k \in 1..Len(s)  BY <1>2, <1>4, <2>4, <2>5
    <3>2. \A k \in 1..Len(m) : m[k] = s[Len(g) + k]  BY <1>4, <2>4, <3>1
    <3>. QED  BY <1>2, <3>1, <3>2, WordIs DEF PlainTo
  <2>7. Len(m) = Len(c) + Len(d) /\ \A k \in 1..Len(m) : m[k] = (c \o d)[k]
    <3>1. Len(m) = Len(c \o d) /\ \A k \in 1..Len(m) : m[k] = (c \o d)[k]  BY <2>6 DEF PlainFront
    <3>2. Len(c \o d) = Len(c) + Len(d)  BY <1>0, JoinIs
    <3>. QED  BY <3>1, <3>2
  <2>8. \A k \in 1..Len(c) : m[k] = c[k]
    <3>1. \A k \in 1..Len(c) : (c \o d)[k] = c[k]  BY <1>0, JoinIs
    <3>2. \A k \in 1..Len(c) : k \in 1..Len(m)  BY <1>2, <2>7
    <3>. QED  BY <2>7, <3>1, <3>2
  <2>. DEFINE v == g \o c
  <2>9. /\ v \in Text /\ Len(v) = Len(g) + Len(c) /\ (\A i \in 1..Len(g) : v[i] = g[i])
        /\ \A i \in 1..Len(c) : v[Len(g) + i] = c[i]
    BY <1>0, <2>2, JoinIs, ZenonT(40)
  <2>10. f \o v = e \o c
    <3>1. Again(f, g, c)  BY <1>0, <2>2, JoinedAgain
    <3>2. (f \o g) \o c = f \o v  BY <3>1 DEF Again
    <3>. QED  BY <2>2, <3>2
  <2>. HIDE DEF v
  <2>11. Begins(v, s)
    <3>1. Len(v) < Len(s) /\ Len(v) \in 0..Len(s)  BY <1>2, <1>4, <2>4, <2>5, <2>7, <2>9
    <3>2. Take(s, Len(v)) \in Text /\ Len(Take(s, Len(v))) = Len(v)
          /\ \A i \in 1..Len(v) : Take(s, Len(v))[i] = s[i]
      BY <1>2, <3>1, TakeIs
    <3>3. ASSUME NEW i \in 1..Len(v)
          PROVE  v[i] = s[i]
      <4>1. i \in 1..Len(u)  BY <1>2, <2>4, <2>5, <2>7, <2>9
      <4>2. CASE i <= Len(g)
        <5>1. i \in 1..Len(g)  BY <2>5, <4>2
        <5>. QED  BY <1>4, <2>4, <2>9, <4>1, <5>1
      <4>3. CASE i > Len(g)
        <5>1. PICK k \in 1..Len(c) : i = Len(g) + k
          <6>1. i - Len(g) \in 1..Len(c) /\ i = Len(g) + (i - Len(g))  BY <1>2, <2>5, <2>9, <4>3
          <6>. QED  BY <6>1
        <5>2. k \in 1..Len(m)  BY <1>2, <2>7
        <5>. QED  BY <1>4, <2>4, <2>8, <2>9, <4>1, <5>1, <5>2
      <4>4. i <= Len(g) \/ i > Len(g)  BY <2>5
      <4>. QED  BY <4>2, <4>3, <4>4
    <3>4. v = Take(s, Len(v))
      <4>1. \A i \in 1..Len(v) : v[i] = Take(s, Len(v))[i]  BY <3>2, <3>3
      <4>. QED  BY <2>9, <3>2, <4>1, SameText
    <3>. QED  BY <3>1, <3>4 DEF Begins
  <2>12. Len(v) <= Len(c)
    <3>1. e \o c = f \o v  BY <2>10
    <3>. QED  BY <2>2, <2>9, <2>11, <3>1 DEF NoLonger
  <2>. QED  BY <1>2, <2>5, <2>9, <2>12
<1>7. Len(u) <= Len(m) \/ Len(u) > Len(m)  BY <1>2
<1>. QED  BY <1>5, <1>6, <1>7

-----------------------------------------------------------------------------
(* Decoding and measuring go through a text from its start.                *)

\* The characters a byte completes.
Decoded(x) == CASE x = "w1" -> <<>> [] x = "w2" -> <<"w">> [] OTHER -> <<x>>
ByteText == Seq(Bytes)

DecodesTo(b, f) ==
  /\ f \in [0..Len(b) -> Text] /\ f[0] = <<>>
  /\ \A n \in 1..Len(b) : f[n] = f[n - 1] \o Decoded(b[n])

LEMMA DecodedIs ==
  ASSUME NEW x \in Bytes
  PROVE  Decoded(x) \in Text
<1>1. x \in {"a", "b", "c", "w1", "w2"}  BY RedactionAssumption
<1>2. "a" \in Letters /\ "b" \in Letters /\ "c" \in Letters /\ "w" \in Letters  BY LettersAre
<1>. QED  BY <1>1, <1>2 DEF Decoded, Text

LEMMA DecodeIs ==
  ASSUME NEW b \in ByteText
  PROVE  \E f : DecodesTo(b, f) /\ Decode(b) = f[Len(b)]
<1>. DEFINE N == Len(b)
            Is(f) == f = [n \in 0..N |-> IF n = 0 THEN <<>> ELSE f[n - 1] \o Decoded(b[n])]
            f == CHOOSE f : Is(f)
<1>1. Decode(b) = f[N]  BY DEF Decode, Decoded
<1>2. N \in Nat /\ \A i \in 1..N : b[i] \in Bytes  BY DEF ByteText
<1>3. \E g : Is(g)
  <2>. DEFINE F == [p \in (1..N) \X Text |-> p[2] \o Decoded(b[p[1]])]
  <2>. HIDE DEF N
  <2>1. \A i \in 1..N : \A v \in Text : F[<<i, v>>] = v \o Decoded(b[i]) /\ F[<<i, v>>] \in Text
    <3>1. \A i \in 1..N : \A v \in Text : v \o Decoded(b[i]) \in Text  BY <1>2, DecodedIs, JoinIs
    <3>. QED  BY <3>1
  <2>. HIDE DEF F
  <2>2. PICK g \in [0..N -> Text] : g[0] = <<>> /\ \A i \in 1..N : g[i] = F[<<i, g[i - 1]>>]
    <3>1. N \in Nat /\ <<>> \in Text /\ Leads(F, N, Text)  BY <1>2, <2>1, LettersAre DEF Leads
    <3>2. Stepped(F, N, Text, <<>>)  BY <3>1, StepByStep
    <3>. QED  BY <3>2, Zenon DEF Stepped
  <2>3. \A i \in 1..N : g[i] = g[i - 1] \o Decoded(b[i])
    <3>1. \A i \in 1..N : i - 1 \in 0..N  BY <1>2
    <3>2. \A i \in 1..N : g[i - 1] \in Text  BY <2>2, <3>1
    <3>. QED  BY <2>1, <2>2, <3>2
  <2>4. \A i \in 0..N : i = 0 \/ i \in 1..N  BY <1>2
  <2>5. \A i \in 0..N : g[i] = IF i = 0 THEN <<>> ELSE g[i - 1] \o Decoded(b[i])  BY <2>2, <2>3, <2>4
  <2>6. g = [n \in 0..N |-> IF n = 0 THEN <<>> ELSE g[n - 1] \o Decoded(b[n])]  BY <2>2, <2>5
  <2>. QED  BY <2>6
<1>4. Is(f)
  <2>. HIDE DEF Is
  <2>. QED  BY <1>3
<1>. HIDE DEF f, N
<1>5. f[0] = <<>> /\ \A i \in 1..N : f[i] = f[i - 1] \o Decoded(b[i])
  <2>1. 0 \in 0..N /\ \A i \in 1..N : i \in 0..N /\ i # 0  BY <1>2
  <2>. QED  BY <1>4, <2>1
<1>6. \A i \in 0..N : f[i] \in Text
  <2>. DEFINE G == {i \in 0..N : f[i] \in Text}
  <2>1. 0 \in G  BY <1>2, <1>5, LettersAre
  <2>2. \A i \in 1..N : i - 1 \in G => i \in G
    <3>1. TAKE i \in 1..N
    <3>2. HAVE i - 1 \in G
    <3>3. Decoded(b[i]) \in Text /\ f[i - 1] \in Text /\ i \in 0..N  BY <1>2, <3>2, DecodedIs
    <3>4. f[i - 1] \o Decoded(b[i]) \in Text  BY <3>3, JoinIs
    <3>5. f[i] \in Text  BY <1>5, <3>4
    <3>. QED  BY <3>3, <3>5
  <2>. HIDE DEF G
  <2>3. \A i \in 0..N : i \in G  BY <1>2, <2>1, <2>2, UpTo
  <2>. QED  BY <2>3 DEF G
<1>7. f \in [0..N -> Text]  BY <1>4, <1>6
<1>. QED  BY <1>1, <1>5, <1>7 DEF DecodesTo, N

LEMMA BytesJoin ==
  ASSUME NEW b \in ByteText, NEW c \in ByteText
  PROVE  /\ b \o c \in ByteText /\ Len(b) \in Nat /\ Len(c) \in Nat /\ Len(b \o c) = Len(b) + Len(c)
         /\ \A i \in 1..Len(b) : (b \o c)[i] = b[i] /\ b[i] \in Bytes
         /\ \A i \in 1..Len(c) : (b \o c)[Len(b) + i] = c[i] /\ c[i] \in Bytes
BY DEF ByteText

\* What is decoded of chunks is what is decoded of the bytes.
LEMMA DecodeJoins ==
  ASSUME NEW b \in ByteText, NEW c \in ByteText
  PROVE  /\ Decode(b \o c) = Decode(b) \o Decode(c)
         /\ Decode(b) \in Text /\ Decode(c) \in Text
<1>. DEFINE w == b \o c
            l == Len(b)
            m == Len(c)
<1>1. /\ w \in ByteText /\ l \in Nat /\ m \in Nat /\ Len(w) = l + m
      /\ \A i \in 1..l : w[i] = b[i] /\ b[i] \in Bytes
      /\ \A i \in 1..m : w[l + i] = c[i] /\ c[i] \in Bytes
  BY BytesJoin
<1>. HIDE DEF w
<1>2. PICK f : DecodesTo(w, f) /\ Decode(w) = f[Len(w)]  BY <1>1, DecodeIs
<1>3. PICK g : DecodesTo(b, g) /\ Decode(b) = g[Len(b)]  BY DecodeIs
<1>4. PICK h : DecodesTo(c, h) /\ Decode(c) = h[Len(c)]  BY DecodeIs
<1>. HIDE DEF l, m
<1>5. l \in 0..l /\ m \in 0..m /\ 0 \in 0..m /\ 0 \in 0..l  BY <1>1
<1>6. \A i \in 0..l : f[i] = g[i]
  <2>. DEFINE G == {i \in 0..l : f[i] = g[i]}
  <2>1. 0 \in G  BY <1>2, <1>3, <1>5 DEF DecodesTo
  <2>2. \A i \in 1..l : i - 1 \in G => i \in G
    <3>1. TAKE i \in 1..l
    <3>2. HAVE i - 1 \in G
    <3>3. i \in 1..Len(w) /\ i \in 0..l  BY <1>1
    <3>4. f[i] = f[i - 1] \o Decoded(w[i])  BY <1>2, <3>3 DEF DecodesTo
    <3>5. g[i] = g[i - 1] \o Decoded(b[i])  BY <1>3 DEF DecodesTo, l
    <3>. QED  BY <1>1, <3>2, <3>3, <3>4, <3>5
  <2>. HIDE DEF G
  <2>3. \A i \in 0..l : i \in G  BY <1>1, <2>1, <2>2, UpTo
  <2>. QED  BY <2>3 DEF G
<1>7. g[l] \in Text /\ \A j \in 0..m : h[j] \in Text  BY <1>3, <1>4, <1>5 DEF DecodesTo, l, m
<1>8. \A j \in 0..m : f[l + j] = g[l] \o h[j]
  <2>. DEFINE G == {j \in 0..m : f[l + j] = g[l] \o h[j]}
  <2>1. 0 \in G
    <3>1. h[0] = <<>> /\ l + 0 = l  BY <1>1, <1>4 DEF DecodesTo
    <3>2. g[l] \o <<>> = g[l]  BY <1>7, JoinsAre
    <3>. QED  BY <1>5, <1>6, <3>1, <3>2
  <2>2. \A j \in 1..m : j - 1 \in G => j \in G
    <3>1. TAKE j \in 1..m
    <3>2. HAVE j - 1 \in G
    <3>. DEFINE n == l + j
    <3>3. n \in 1..Len(w) /\ j \in 0..m /\ j - 1 \in 0..m /\ n - 1 = l + (j - 1) /\ n = l + j  BY <1>1
    <3>. HIDE DEF n
    <3>4. f[n] = f[n - 1] \o Decoded(w[n])  BY <1>2, <3>3 DEF DecodesTo
    <3>5. h[j] = h[j - 1] \o Decoded(c[j])  BY <1>4 DEF DecodesTo, m
    <3>6. f[l + (j - 1)] = g[l] \o h[j - 1]  BY <3>2
    <3>. DEFINE x == Decoded(c[j])
                y == h[j - 1]
    <3>7. f[n] = (g[l] \o y) \o x
      <4>1. w[n] = c[j] /\ f[n - 1] = f[l + (j - 1)]  BY <1>1, <3>3
      <4>. QED  BY <3>4, <3>6, <4>1
    <3>8. x \in Text /\ y \in Text  BY <1>1, <1>7, <3>3, DecodedIs
    <3>9. h[j] = y \o x  BY <3>5
    <3>. HIDE DEF x, y
    <3>10. Again(g[l], y, x)  BY <1>7, <3>8, JoinedAgain
    <3>11. f[l + j] = g[l] \o h[j]  BY <3>3, <3>7, <3>9, <3>10 DEF Again
    <3>. QED  BY <3>3, <3>11
  <2>. HIDE DEF G
  <2>3. \A i \in 0..m : i \in G  BY <1>1, <2>1, <2>2, UpTo
  <2>. QED  BY <2>3 DEF G
<1>9. f[l + m] = g[l] \o h[m]  BY <1>5, <1>8
<1>10. Decode(w) = Decode(b) \o Decode(c)  BY <1>1, <1>2, <1>3, <1>4, <1>9 DEF l, m
<1>11. Decode(b) \in Text /\ Decode(c) \in Text  BY <1>3, <1>4, <1>5, <1>7 DEF l, m
<1>. QED  BY <1>10, <1>11 DEF w

MeasuresTo(t, f) ==
  /\ f \in [0..Len(t) -> Nat] /\ f[0] = 0
  /\ \A n \in 1..Len(t) : f[n] = f[n - 1] + Width(t[n])

LEMMA WidthIs ==
  ASSUME NEW x
  PROVE  Width(x) \in Nat \ {0}
BY DEF Width

LEMMA ByteLengthIs ==
  ASSUME NEW t \in Text
  PROVE  \E f : MeasuresTo(t, f) /\ ByteLength(t) = f[Len(t)]
<1>. DEFINE N == Len(t)
            Is(f) == f = [n \in 0..N |-> IF n = 0 THEN 0 ELSE f[n - 1] + Width(t[n])]
            f == CHOOSE f : Is(f)
<1>1. ByteLength(t) = f[N]  BY DEF ByteLength
<1>2. N \in Nat  BY LettersOf
<1>3. \E g : Is(g)
  <2>. DEFINE F == [p \in (1..N) \X Nat |-> p[2] + Width(t[p[1]])]
  <2>. HIDE DEF N
  <2>1. \A i \in 1..N : \A v \in Nat : F[<<i, v>>] = v + Width(t[i]) /\ F[<<i, v>>] \in Nat
    <3>1. \A i \in 1..N : \A v \in Nat : v + Width(t[i]) \in Nat
      <4>1. \A i \in 1..N : Width(t[i]) \in Nat  BY WidthIs
      <4>. QED  BY <4>1
    <3>2. \A i \in 1..N : \A v \in Nat : F[<<i, v>>] = v + Width(t[i])  OBVIOUS
    <3>. HIDE DEF F
    <3>. QED  BY <3>1, <3>2
  <2>. HIDE DEF F
  <2>2. PICK g \in [0..N -> Nat] : g[0] = 0 /\ \A i \in 1..N : g[i] = F[<<i, g[i - 1]>>]
    <3>. DEFINE V == Nat
    <3>1. N \in Nat /\ 0 \in V /\ Leads(F, N, V)  BY <1>2, <2>1 DEF Leads
    <3>. HIDE DEF V
    <3>2. Stepped(F, N, V, 0)  BY <3>1, StepByStep
    <3>. QED  BY <3>2, Zenon DEF V, Stepped
  <2>3. \A i \in 1..N : g[i] = g[i - 1] + Width(t[i])
    <3>1. \A i \in 1..N : i - 1 \in 0..N  BY <1>2
    <3>2. \A i \in 1..N : g[i - 1] \in Nat  BY <2>2, <3>1
    <3>. QED  BY <2>1, <2>2, <3>2
  <2>4. \A i \in 0..N : i = 0 \/ i \in 1..N  BY <1>2
  <2>5. \A i \in 0..N : g[i] = IF i = 0 THEN 0 ELSE g[i - 1] + Width(t[i])  BY <2>2, <2>3, <2>4
  <2>6. g = [n \in 0..N |-> IF n = 0 THEN 0 ELSE g[n - 1] + Width(t[n])]  BY <2>2, <2>5
  <2>. QED  BY <2>6
<1>4. Is(f)
  <2>. HIDE DEF Is
  <2>. QED  BY <1>3
<1>. HIDE DEF f, N
<1>5. f[0] = 0 /\ \A i \in 1..N : f[i] = f[i - 1] + Width(t[i])
  <2>1. 0 \in 0..N /\ \A i \in 1..N : i \in 0..N /\ i # 0  BY <1>2
  <2>. QED  BY <1>4, <2>1
<1>6. \A i \in 0..N : f[i] \in Nat
  <2>. DEFINE G == {i \in 0..N : f[i] \in Nat}
  <2>1. 0 \in G  BY <1>2, <1>5
  <2>2. \A i \in 1..N : i - 1 \in G => i \in G
    <3>1. TAKE i \in 1..N
    <3>2. HAVE i - 1 \in G
    <3>3. Width(t[i]) \in Nat /\ f[i - 1] \in Nat /\ i \in 0..N  BY <1>2, <3>2, WidthIs
    <3>4. f[i] \in Nat  BY <1>5, <3>3
    <3>. QED  BY <3>3, <3>4
  <2>. HIDE DEF G
  <2>3. \A i \in 0..N : i \in G  BY <1>2, <2>1, <2>2, UpTo
  <2>. QED  BY <2>3 DEF G
<1>7. f \in [0..N -> Nat]  BY <1>4, <1>6
<1>. QED  BY <1>1, <1>5, <1>7 DEF MeasuresTo, N

\* The bytes of a text are those of its parts.
LEMMA ByteLengthJoins ==
  ASSUME NEW t \in Text, NEW u \in Text
  PROVE  /\ ByteLength(t \o u) = ByteLength(t) + ByteLength(u)
         /\ ByteLength(t) \in Nat /\ ByteLength(u) \in Nat
<1>. DEFINE w == t \o u
            l == Len(t)
            m == Len(u)
<1>1. /\ w \in Text /\ l \in Nat /\ m \in Nat /\ Len(w) = l + m
      /\ \A i \in 1..l : w[i] = t[i]
      /\ \A i \in 1..m : w[l + i] = u[i]
  BY JoinIs, LettersOf
<1>. HIDE DEF w
<1>2. PICK f : MeasuresTo(w, f) /\ ByteLength(w) = f[Len(w)]  BY <1>1, ByteLengthIs
<1>3. PICK g : MeasuresTo(t, g) /\ ByteLength(t) = g[Len(t)]  BY ByteLengthIs
<1>4. PICK h : MeasuresTo(u, h) /\ ByteLength(u) = h[Len(u)]  BY ByteLengthIs
<1>. HIDE DEF l, m
<1>5. l \in 0..l /\ m \in 0..m /\ 0 \in 0..m /\ 0 \in 0..l  BY <1>1
<1>6. \A i \in 0..l : f[i] = g[i]
  <2>. DEFINE G == {i \in 0..l : f[i] = g[i]}
  <2>1. 0 \in G  BY <1>2, <1>3, <1>5 DEF MeasuresTo
  <2>2. \A i \in 1..l : i - 1 \in G => i \in G
    <3>1. TAKE i \in 1..l
    <3>2. HAVE i - 1 \in G
    <3>3. i \in 1..Len(w) /\ i \in 0..l  BY <1>1
    <3>4. f[i] = f[i - 1] + Width(w[i])  BY <1>2, <3>3 DEF MeasuresTo
    <3>5. g[i] = g[i - 1] + Width(t[i])  BY <1>3 DEF MeasuresTo, l
    <3>. QED  BY <1>1, <3>2, <3>3, <3>4, <3>5
  <2>. HIDE DEF G
  <2>3. \A i \in 0..l : i \in G  BY <1>1, <2>1, <2>2, UpTo
  <2>. QED  BY <2>3 DEF G
<1>7. g[l] \in Nat /\ \A j \in 0..m : h[j] \in Nat  BY <1>3, <1>4, <1>5 DEF MeasuresTo, l, m
<1>8. \A j \in 0..m : f[l + j] = g[l] + h[j]
  <2>. DEFINE G == {j \in 0..m : f[l + j] = g[l] + h[j]}
  <2>1. 0 \in G
    <3>1. h[0] = 0 /\ l + 0 = l  BY <1>1, <1>4 DEF MeasuresTo
    <3>. QED  BY <1>5, <1>6, <1>7, <3>1
  <2>2. \A j \in 1..m : j - 1 \in G => j \in G
    <3>1. TAKE j \in 1..m
    <3>2. HAVE j - 1 \in G
    <3>. DEFINE n == l + j
    <3>3. n \in 1..Len(w) /\ j \in 0..m /\ j - 1 \in 0..m /\ n - 1 = l + (j - 1) /\ n = l + j  BY <1>1
    <3>. HIDE DEF n
    <3>4. f[n] = f[n - 1] + Width(w[n])  BY <1>2, <3>3 DEF MeasuresTo
    <3>5. h[j] = h[j - 1] + Width(u[j])  BY <1>4 DEF MeasuresTo, m
    <3>6. f[l + (j - 1)] = g[l] + h[j - 1]  BY <3>2
    <3>7. w[n] = u[j] /\ f[n - 1] = f[l + (j - 1)]  BY <1>1, <3>3
    <3>8. Width(u[j]) \in Nat /\ h[j - 1] \in Nat  BY <1>7, <3>3, WidthIs
    <3>9. f[n] = g[l] + h[j]  BY <1>7, <3>4, <3>5, <3>6, <3>7, <3>8
    <3>. QED  BY <3>3, <3>9
  <2>. HIDE DEF G
  <2>3. \A i \in 0..m : i \in G  BY <1>1, <2>1, <2>2, UpTo
  <2>. QED  BY <2>3 DEF G
<1>9. f[l + m] = g[l] + h[m]  BY <1>5, <1>8
<1>10. ByteLength(w) = ByteLength(t) + ByteLength(u)  BY <1>1, <1>2, <1>3, <1>4, <1>9 DEF l, m
<1>11. ByteLength(t) \in Nat /\ ByteLength(u) \in Nat  BY <1>3, <1>4, <1>5, <1>7 DEF l, m
<1>. QED  BY <1>10, <1>11 DEF w

\* What does not fit is not taken, and what is taken is all that fits.
LEMMA PrefixFits ==
  ASSUME NEW t \in Text, NEW room \in Nat
  PROVE  \E h \in 0..Len(t) :
           /\ Utf8Prefix(t, room) = Take(t, h) /\ ByteLength(Take(t, h)) <= room
           /\ h < Len(t) => ByteLength(Take(t, h)) + Width(t[h + 1]) > room
<1>. DEFINE T == {0} \cup {n \in 1..Len(t) : ByteLength(SubSeq(t, 1, n)) <= room}
            h == Max(T)
            l == Len(t)
<1>1. l \in Nat /\ l = Len(t)  BY LettersOf
<1>2. h \in T /\ \A n \in T : n <= h
  <2>1. T \in SUBSET (0..l) /\ T # {}  BY <1>1
  <2>. HIDE DEF T
  <2>. QED  BY <1>1, <2>1, MaxIs
<1>3. Utf8Prefix(t, room) = Take(t, h)  BY DEF Utf8Prefix, Take
<1>. HIDE DEF h
<1>4. h \in 0..l  BY <1>1, <1>2
<1>5. ByteLength(Take(t, h)) <= room
  <2>1. CASE h = 0
    <3>1. Take(t, h) \in Text /\ Len(Take(t, h)) = 0  BY <1>4, <2>1, TakeIs
    <3>2. PICK f : MeasuresTo(Take(t, h), f) /\ ByteLength(Take(t, h)) = f[Len(Take(t, h))]
      BY <3>1, ByteLengthIs
    <3>3. ByteLength(Take(t, h)) = 0  BY <3>1, <3>2 DEF MeasuresTo
    <3>. QED  BY <3>3
  <2>2. CASE h # 0  BY <1>2, <2>2 DEF Take
  <2>. QED  BY <2>1, <2>2
<1>6. ASSUME h < l
      PROVE  ByteLength(Take(t, h)) + Width(t[h + 1]) > room
  <2>. DEFINE a == Take(t, h)
              b == Take(t, h + 1)
  <2>1. h + 1 \in 1..l /\ h + 1 \in 0..l /\ h \in Nat  BY <1>1, <1>4, <1>6
  <2>2. h + 1 \notin T
    <3>. HIDE DEF T
    <3>. QED  BY <1>2, <2>1
  <2>3. ~(ByteLength(b) <= room)  BY <1>1, <2>1, <2>2 DEF Take
  <2>4. a \in Text /\ Len(a) = h /\ \A i \in 1..h : a[i] = t[i]  BY <1>1, <1>4, TakeIs
  <2>5. b \in Text /\ Len(b) = h + 1 /\ \A i \in 1..(h + 1) : b[i] = t[i]  BY <1>1, <2>1, TakeIs
  <2>. HIDE DEF a, b, T, l
  <2>6. ByteLength(b) = ByteLength(a) + Width(t[h + 1])
    <3>. DEFINE x == t[h + 1]
                d == <<x>>
    <3>1. x \in Letters  BY <1>1, <2>1, LettersOf DEF l
    <3>2. d \in Text /\ Len(d) = 1 /\ d[1] = x  BY <3>1 DEF Text
    <3>. HIDE DEF d
    <3>3. a \o d \in Text /\ Len(a \o d) = h + 1 /\ (\A i \in 1..h : (a \o d)[i] = a[i])
          /\ (a \o d)[h + 1] = x
      <4>1. a \o d \in Text /\ Len(a \o d) = Len(a) + Len(d) /\ (\A i \in 1..Len(a) : (a \o d)[i] = a[i])
            /\ \A i \in 1..Len(d) : (a \o d)[Len(a) + i] = d[i]
        BY <2>4, <3>2, JoinIs
      <4>2. 1 \in 1..Len(d)  BY <3>2
      <4>. QED  BY <2>4, <3>2, <4>1, <4>2
    <3>4. \A i \in 1..(h + 1) : (a \o d)[i] = b[i]
      <4>1. TAKE i \in 1..(h + 1)
      <4>2. i = h + 1 \/ i \in 1..h  BY <2>1
      <4>. QED  BY <2>4, <2>5, <3>3, <4>2
    <3>5. b = a \o d  BY <2>5, <3>3, <3>4, SameText
    <3>6. ByteLength(b) = ByteLength(a) + ByteLength(d)  BY <2>4, <3>2, <3>5, ByteLengthJoins
    <3>7. PICK f : MeasuresTo(d, f) /\ ByteLength(d) = f[Len(d)]  BY <3>2, ByteLengthIs
    <3>8. ByteLength(d) = Width(x)
      <4>1. f[0] = 0 /\ f[1] = f[1 - 1] + Width(d[1])
        <5>1. 1 \in 1..Len(d)  BY <3>2
        <5>. QED  BY <3>7, <5>1 DEF MeasuresTo
      <4>2. 1 - 1 = 0 /\ Width(x) \in Nat  BY WidthIs
      <4>. QED  BY <3>2, <3>7, <4>1, <4>2
    <3>. QED  BY <3>6, <3>8
  <2>7. ByteLength(a) \in Nat /\ ByteLength(b) \in Nat  BY <2>4, <2>5, ByteLengthJoins
  <2>. QED  BY <2>3, <2>6, <2>7 DEF a
<1>. QED  BY <1>1, <1>3, <1>4, <1>5, <1>6

-----------------------------------------------------------------------------
(* The steps, for any list of secrets: e is what was given away, c what is *)
(* held back, b the bytes so far.                                          *)

\* What is held back begins a secret, and no secret is in what was given away and it.
Held(q, e, c) ==
  /\ c \in Plain
  /\ c # <<>> => \E i \in 1..Len(q) : Begins(c, q[i])
  /\ \A i \in 1..Len(q) : ~Occurs(q[i], e \o c)

\* It is the longest end of the two that a secret may begin with.
Longest(q, e, c) == \A i \in 1..Len(q) : NoLonger(e \o c, q[i], c)

\* Whatever follows, what was given away is what would have come out of the whole.
Decides(q, b, e, c) ==
  ApartIn(q) => \A x \in Text : RedactBy(q, Decode(b) \o x) = e \o RedactBy(q, c \o x)

LEMMA PushKeeps ==
  ASSUME NEW q \in Seq(Words), NEW b \in ByteText, NEW e \in Text, NEW c, NEW d \in ByteText,
         Held(q, e, c), Longest(q, e, c), Decides(q, b, e, c), NEW m, m = RedactBy(q, c \o Decode(d))
  PROVE  LET k == Len(m) - HoldBy(q, m)
         IN  /\ m \in Text /\ k \in 0..Len(m) /\ HoldBy(q, m) \in 0..Len(m) /\ Take(m, k) \in Text
             /\ Held(q, e \o Take(m, k), Drop(m, k))
             /\ Longest(q, e \o Take(m, k), Drop(m, k))
             /\ Decides(q, b \o d, e \o Take(m, k), Drop(m, k))
<1>. DEFINE k == Len(m) - HoldBy(q, m)
            x == Take(m, k)
            g == Drop(m, k)
            y == Decode(d)
<1>1. c \in Plain /\ c \in Text /\ (\A i \in 1..Len(q) : q[i] \in Words)  BY PlainIs DEF Held
<1>2. y \in Text /\ Decode(b) \in Text /\ Decode(b \o d) = Decode(b) \o y  BY DecodeJoins
<1>. HIDE DEF y
<1>3. c \o y \in Text  BY <1>1, <1>2, JoinIs
<1>4. m = RedactBy(q, c \o y)  BY DEF y
<1>5. m \in Text /\ PlainFront(m, c \o y) /\ \A i \in 1..Len(q) : ~Occurs(q[i], m)  BY <1>3, <1>4, RedactText
<1>6. HoldBy(q, m) \in 0..Len(m) /\ k \in 0..Len(m)
  <2>1. HoldBy(q, m) \in 0..Len(m) /\ Len(m) \in Nat  BY <1>5, HoldIs, LettersOf
  <2>. QED  BY <2>1
<1>7. /\ g \in Plain /\ (g # <<>> => \E i \in 1..Len(q) : Begins(g, q[i]))
      /\ \A i \in 1..Len(q) : NoLonger(m, q[i], g)
  BY <1>5, HoldIs
<1>8. x \in Text /\ g \in Text /\ x \o g = m
  <2>. HIDE DEF k
  <2>. QED  BY <1>5, <1>6, TakeIs, DropIs, TakeDrop
<1>. HIDE DEF k, x, g
<1>9. (e \o x) \o g = e \o m
  <2>1. Again(e, x, g)  BY <1>8, JoinedAgain
  <2>. QED  BY <1>8, <2>1 DEF Again
<1>10. \A i \in 1..Len(q) : ~Occurs(q[i], e \o m)
  BY <1>1, <1>2, <1>5, NoneComesIn DEF Held, Longest
<1>11. \A i \in 1..Len(q) : NoLonger(e \o m, q[i], g)
  BY <1>1, <1>2, <1>5, <1>7, <1>8, LongestStays DEF Longest
<1>12. Held(q, e \o x, g) /\ Longest(q, e \o x, g)  BY <1>7, <1>9, <1>10, <1>11 DEF Held, Longest
<1>13. Decides(q, b \o d, e \o x, g)
  <2>1. SUFFICES ASSUME ApartIn(q), NEW z \in Text
                 PROVE  RedactBy(q, Decode(b \o d) \o z) = (e \o x) \o RedactBy(q, g \o z)
    BY DEF Decides
  <2>2. Decode(b \o d) \o z = Decode(b) \o (y \o z) /\ y \o z \in Text
    <3>1. Again(Decode(b), y, z)  BY <1>2, JoinedAgain
    <3>2. y \o z \in Text  BY <1>2, JoinIs
    <3>. QED  BY <1>2, <3>1, <3>2 DEF Again
  <2>3. RedactBy(q, Decode(b) \o (y \o z)) = e \o RedactBy(q, c \o (y \o z))  BY <2>1, <2>2 DEF Decides
  <2>4. c \o (y \o z) = (c \o y) \o z
    <3>1. Again(c, y, z)  BY <1>1, <1>2, JoinedAgain
    <3>. QED  BY <3>1 DEF Again
  <2>5. RedactBy(q, (c \o y) \o z) = x \o RedactBy(q, g \o z)
    <3>. DEFINE t == c \o y
    <3>1. t \in Text /\ ComesApart(q, t, x, g)  BY <1>3, <1>4, <1>7, <1>8 DEF ComesApart
    <3>. HIDE DEF t
    <3>2. RedactBy(q, t \o z) = x \o RedactBy(q, g \o z)
      BY <1>7, <1>8, <2>1, <3>1, RedactSplits
    <3>. QED  BY <3>2 DEF t
  <2>6. e \o (x \o RedactBy(q, g \o z)) = (e \o x) \o RedactBy(q, g \o z)
    <3>1. RedactBy(q, g \o z) \in Text
      <4>1. g \o z \in Text  BY <1>8, JoinIs
      <4>. QED  BY <4>1, RedactText
    <3>2. Again(e, x, RedactBy(q, g \o z))  BY <1>8, <3>1, JoinedAgain
    <3>. QED  BY <3>2 DEF Again
  <2>. QED  BY <2>2, <2>3, <2>4, <2>5, <2>6
<1>. QED  BY <1>5, <1>6, <1>8, <1>12, <1>13 DEF k, x, g

LEMMA FinishKeeps ==
  ASSUME NEW q \in Seq(Words), NEW b \in ByteText, NEW e \in Text, NEW c, NEW z \in Text,
         Held(q, e, c), Longest(q, e, c), Decides(q, b, e, c)
  PROVE  /\ RedactBy(q, c \o z) \in Text
         /\ Held(q, e \o RedactBy(q, c \o z), <<>>)
         /\ ApartIn(q) => e \o RedactBy(q, c \o z) = RedactBy(q, Decode(b) \o z)
<1>. DEFINE m == RedactBy(q, c \o z)
<1>1. c \in Plain /\ c \in Text /\ (\A i \in 1..Len(q) : q[i] \in Words)  BY PlainIs DEF Held
<1>2. c \o z \in Text  BY <1>1, JoinIs
<1>3. m \in Text /\ PlainFront(m, c \o z) /\ \A i \in 1..Len(q) : ~Occurs(q[i], m)  BY <1>2, RedactText
<1>4. ApartIn(q) => e \o m = RedactBy(q, Decode(b) \o z)  BY DEF Decides
<1>. HIDE DEF m
<1>5. \A i \in 1..Len(q) : ~Occurs(q[i], e \o m)
  BY <1>1, <1>3, NoneComesIn DEF Held, Longest
<1>6. (e \o m) \o <<>> = e \o m /\ <<>> \in Plain
  <2>1. e \o m \in Text  BY <1>3, JoinIs
  <2>2. <<>> \in Plain  BY DEF Plain
  <2>. QED  BY <2>1, <2>2, JoinsAre
<1>7. Held(q, e \o m, <<>>)  BY <1>5, <1>6 DEF Held
<1>. QED  BY <1>3, <1>4, <1>7 DEF m

\* What is captured is the longest beginning of what was given away that fits.
Captured(e, t, n, cut) ==
  /\ e \in Text /\ t \in Text /\ IsPrefix(t, e) /\ cut = (t # e)
  /\ ByteLength(t) <= MaxCaptureBytes /\ n = ByteLength(e)
  /\ cut => ByteLength(t) + Width(e[Len(t) + 1]) > MaxCaptureBytes

LEMMA PrefixOf ==
  ASSUME NEW t \in Text, NEW e \in Text
  PROVE  IsPrefix(t, e) <=> Len(t) <= Len(e) /\ \A i \in 1..Len(t) : t[i] = e[i]
<1>1. Len(t) \in Nat /\ Len(e) \in Nat /\ Len(t) \in 0..Len(t)  BY LettersOf
<1>2. Take(t, Len(t)) \in Text /\ Len(Take(t, Len(t))) = Len(t) /\ \A i \in 1..Len(t) : Take(t, Len(t))[i] = t[i]
  BY <1>1, TakeIs
<1>3. CASE Len(t) <= Len(e)
  <2>1. Len(t) \in 0..Len(e)  BY <1>1, <1>3
  <2>2. Take(e, Len(t)) \in Text /\ Len(Take(e, Len(t))) = Len(t) /\ \A i \in 1..Len(t) : Take(e, Len(t))[i] = e[i]
    BY <2>1, TakeIs
  <2>3. Take(t, Len(t)) = Take(e, Len(t)) <=> \A i \in 1..Len(t) : t[i] = e[i]
    <3>1. ASSUME \A i \in 1..Len(t) : t[i] = e[i]
          PROVE  Take(t, Len(t)) = Take(e, Len(t))
      <4>1. \A i \in 1..Len(t) : Take(t, Len(t))[i] = Take(e, Len(t))[i]  BY <1>2, <2>2, <3>1
      <4>. QED  BY <1>2, <2>2, <4>1, SameText
    <3>2. ASSUME Take(t, Len(t)) = Take(e, Len(t))
          PROVE  \A i \in 1..Len(t) : t[i] = e[i]
      BY <1>2, <2>2, <3>2
    <3>. QED  BY <3>1, <3>2
  <2>. QED  BY <1>3, <2>3 DEF IsPrefix, Take
<1>4. CASE ~(Len(t) <= Len(e))  BY <1>4 DEF IsPrefix
<1>. QED  BY <1>3, <1>4

LEMMA CaptureKeeps ==
  ASSUME NEW e, NEW t, NEW n, NEW cut \in BOOLEAN, Captured(e, t, n, cut), NEW new \in Text,
         NEW kept, kept = IF cut THEN <<>> ELSE Utf8Prefix(new, MaxCaptureBytes - ByteLength(t))
  PROVE  /\ kept \in Text /\ t \o kept \in Text
         /\ Captured(e \o new, t \o kept, n + ByteLength(new), (cut \/ Len(kept) < Len(new)))
<1>1. /\ e \in Text /\ t \in Text /\ IsPrefix(t, e) /\ ByteLength(t) <= MaxCaptureBytes /\ n = ByteLength(e)
  BY DEF Captured
<1>2. cut <=> t # e  BY DEF Captured
<1>3. /\ Len(t) \in Nat /\ Len(e) \in Nat /\ Len(new) \in Nat
      /\ Len(t) <= Len(e) /\ \A i \in 1..Len(t) : t[i] = e[i]
  BY <1>1, LettersOf, PrefixOf
<1>. DEFINE f == e \o new
<1>4. /\ f \in Text /\ Len(f) = Len(e) + Len(new)
      /\ (\A i \in 1..Len(e) : f[i] = e[i]) /\ \A i \in 1..Len(new) : f[Len(e) + i] = new[i]
  BY <1>1, JoinIs
<1>5. ByteLength(f) = n + ByteLength(new)  BY <1>1, ByteLengthJoins
<1>. HIDE DEF f
<1>6. CASE cut
  <2>1. kept = <<>> /\ t \o kept = t /\ kept \in Text  BY <1>1, <1>6, JoinsAre, LettersAre
  <2>2. Len(t) < Len(e)
    <3>1. Len(t) # Len(e)
      <4>1. SUFFICES ASSUME Len(t) = Len(e)  PROVE FALSE  OBVIOUS
      <4>2. t = e  BY <1>1, <1>3, <4>1, SameText
      <4>. QED  BY <1>2, <1>6, <4>2
    <3>. QED  BY <1>3, <3>1
  <2>3. \A i \in 1..Len(t) : i \in 1..Len(e)  BY <1>3
  <2>4. IsPrefix(t, f)  BY <1>1, <1>3, <1>4, <2>3, PrefixOf
  <2>5. t # f  BY <1>3, <1>4, <2>2
  <2>6. f[Len(t) + 1] = e[Len(t) + 1]
    <3>1. Len(t) + 1 \in 1..Len(e)  BY <1>3, <2>2
    <3>. QED  BY <1>4, <3>1
  <2>7. ByteLength(t) + Width(e[Len(t) + 1]) > MaxCaptureBytes  BY <1>6 DEF Captured
  <2>8. Captured(f, t, n + ByteLength(new), TRUE)  BY <1>1, <1>4, <1>5, <2>4, <2>5, <2>6, <2>7 DEF Captured
  <2>9. (cut \/ Len(kept) < Len(new)) = TRUE  BY <1>6
  <2>. QED  BY <1>1, <2>1, <2>8, <2>9 DEF f
<1>7. CASE ~cut
  <2>. DEFINE room == MaxCaptureBytes - ByteLength(t)
  <2>1. t = e /\ ByteLength(t) \in Nat /\ MaxCaptureBytes \in Nat
    BY <1>1, <1>2, <1>7, ByteLengthJoins, RedactionAssumption
  <2>2. room \in Nat  BY <1>1, <2>1
  <2>. HIDE DEF room
  <2>3. PICK h \in 0..Len(new) :
          /\ Utf8Prefix(new, room) = Take(new, h) /\ ByteLength(Take(new, h)) <= room
          /\ h < Len(new) => ByteLength(Take(new, h)) + Width(new[h + 1]) > room
    BY <2>2, PrefixFits
  <2>4. kept = Take(new, h)  BY <1>7, <2>3 DEF room
  <2>5. kept \in Text /\ Len(kept) = h /\ \A i \in 1..h : kept[i] = new[i]  BY <2>3, <2>4, TakeIs
  <2>. DEFINE u == t \o kept
  <2>6. /\ u \in Text /\ Len(u) = Len(t) + h
        /\ (\A i \in 1..Len(t) : u[i] = t[i]) /\ \A i \in 1..h : u[Len(t) + i] = kept[i]
    BY <1>1, <2>5, JoinIs
  <2>7. ByteLength(u) = ByteLength(t) + ByteLength(kept) /\ ByteLength(kept) \in Nat  BY <1>1, <2>5, ByteLengthJoins
  <2>. HIDE DEF u
  <2>8. \A i \in 1..Len(u) : u[i] = f[i]
    <3>1. TAKE i \in 1..Len(u)
    <3>2. CASE i <= Len(t)
      <4>1. i \in 1..Len(t) /\ i \in 1..Len(e)  BY <1>3, <3>2
      <4>. QED  BY <1>3, <1>4, <2>6, <4>1
    <3>3. CASE i > Len(t)
      <4>1. PICK j \in 1..h : i = Len(t) + j /\ j \in 1..Len(new)
        <5>1. i - Len(t) \in 1..h /\ i = Len(t) + (i - Len(t)) /\ i - Len(t) \in 1..Len(new)
          BY <1>3, <2>3, <2>6, <3>3
        <5>. QED  BY <5>1
      <4>. QED  BY <1>4, <2>1, <2>5, <2>6, <4>1
    <3>4. i <= Len(t) \/ i > Len(t)  BY <1>3
    <3>. QED  BY <3>2, <3>3, <3>4
  <2>9. Len(u) <= Len(f) /\ (Len(u) = Len(f) <=> h = Len(new))
    <3>1. Len(t) = Len(e) /\ h \in Nat /\ h <= Len(new)  BY <1>3, <2>1, <2>3
    <3>2. Len(f) = Len(t) + Len(new) /\ Len(u) = Len(t) + h  BY <1>4, <2>6, <3>1
    <3>3. Len(t) \in Nat /\ Len(new) \in Nat  BY <1>3
    <3>4. \A i, j, k \in Nat : j <= k => i + j <= i + k /\ (i + j = i + k <=> j = k)  OBVIOUS
    <3>5. Len(t) + h <= Len(t) + Len(new) /\ (Len(t) + h = Len(t) + Len(new) <=> h = Len(new))
      BY <3>1, <3>3, <3>4
    <3>. QED  BY <3>2, <3>5, Zenon
  <2>10. IsPrefix(u, f)  BY <1>4, <2>6, <2>8, <2>9, PrefixOf
  <2>11. u # f <=> h < Len(new)
    <3>1. ASSUME h = Len(new)  PROVE u = f  BY <1>4, <2>6, <2>8, <2>9, <3>1, SameText
    <3>2. h < Len(new) => u # f  BY <1>3, <2>3, <2>9
    <3>3. h = Len(new) \/ h < Len(new)  BY <1>3, <2>3
    <3>. QED  BY <3>1, <3>2, <3>3
  <2>12. ByteLength(u) <= MaxCaptureBytes  BY <2>1, <2>3, <2>4, <2>7 DEF room
  <2>13. ASSUME h < Len(new)
         PROVE  ByteLength(u) + Width(f[Len(u) + 1]) > MaxCaptureBytes
    <3>1. h + 1 \in 1..Len(new) /\ Len(u) + 1 = Len(e) + (h + 1)  BY <1>3, <2>1, <2>3, <2>6, <2>13
    <3>2. f[Len(u) + 1] = new[h + 1]  BY <1>4, <3>1
    <3>3. ByteLength(kept) + Width(new[h + 1]) > MaxCaptureBytes - ByteLength(t)  BY <2>3, <2>4, <2>13 DEF room
    <3>4. Width(new[h + 1]) \in Nat  BY WidthIs
    <3>. QED  BY <2>1, <2>7, <3>2, <3>3, <3>4
  <2>. DEFINE z == Len(kept) < Len(new)
  <2>14. z <=> h < Len(new)  BY <2>5
  <2>15. z = (u # f)  BY <2>11, <2>14
  <2>. HIDE DEF z
  <2>16. Captured(f, u, n + ByteLength(new), z)
    BY <1>4, <1>5, <2>6, <2>10, <2>12, <2>13, <2>14, <2>15 DEF Captured
  <2>17. (cut \/ Len(kept) < Len(new)) = z  BY <1>7 DEF z
  <2>. QED  BY <2>5, <2>6, <2>16, <2>17 DEF u, f
<1>. QED  BY <1>6, <1>7

-----------------------------------------------------------------------------
(* The specification: what is said of the lists holds of the state.        *)

Ending(b) == IF InsideCharacter(b) THEN <<"?">> ELSE <<>>

\* The inductive invariant: while the command prints, what is held back is the longest
\* end that a secret may begin with and decides all that follows; at the end, nothing is.
RedactionInv ==
  LET q == SecretsOf(secretValues)
  IN  /\ RedactionTypeOK
      /\ Held(q, emitted, carry)
      /\ ~finished => Longest(q, emitted, carry) /\ Decides(q, received, emitted, carry)
      /\ finished => carry = <<>>
                     /\ (ApartIn(q) => emitted = RedactBy(q, Decode(received) \o Ending(received)))
      /\ Captured(emitted, text, totalBytes, truncated)

LEMMA StartKeeps ==
  ASSUME NEW q \in Seq(Words)
  PROVE  /\ Held(q, <<>>, <<>>) /\ Longest(q, <<>>, <<>>) /\ Decides(q, <<>>, <<>>, <<>>)
         /\ Captured(<<>>, <<>>, 0, FALSE)
<1>1. <<>> \in Text /\ <<>> \in Plain /\ <<>> \in ByteText /\ Len(<<>>) = 0
  BY LettersAre DEF Plain, ByteText
<1>2. <<>> \o <<>> = <<>>  BY <1>1, JoinsAre
<1>3. \A i \in 1..Len(q) : q[i] \in Words /\ Len(q[i]) \in Nat \ {0}
  <2>1. \A i \in 1..Len(q) : q[i] \in Words  OBVIOUS
  <2>. QED  BY <2>1, WordIs
<1>4. Held(q, <<>>, <<>>)
  <2>1. \A i \in 1..Len(q) : ~Occurs(q[i], <<>>)  BY <1>1, <1>3, TooShort
  <2>. QED  BY <1>1, <1>2, <2>1 DEF Held
<1>5. Longest(q, <<>>, <<>>)
  <2>1. ASSUME NEW x \in Text, NEW u \in Text, <<>> = x \o u
        PROVE  Len(u) <= Len(<<>>)
    <3>1. Len(x) \in Nat /\ Len(u) \in Nat /\ Len(x \o u) = Len(x) + Len(u)  BY JoinIs, LettersOf
    <3>. QED  BY <1>1, <2>1, <3>1
  <2>. QED  BY <1>2, <2>1 DEF Longest, NoLonger
<1>6. Decides(q, <<>>, <<>>, <<>>)
  <2>1. Decode(<<>>) = <<>>
    <3>1. PICK f : DecodesTo(<<>>, f) /\ Decode(<<>>) = f[Len(<<>>)]  BY <1>1, DecodeIs
    <3>. QED  BY <1>1, <3>1 DEF DecodesTo
  <2>2. ASSUME NEW x \in Text
        PROVE  RedactBy(q, <<>> \o x) = <<>> \o RedactBy(q, <<>> \o x)
    <3>1. <<>> \o x = x  BY <1>1, JoinsAre
    <3>2. RedactBy(q, x) \in Text  BY RedactText
    <3>3. <<>> \o RedactBy(q, x) = RedactBy(q, x)  BY <1>1, <3>2, JoinsAre
    <3>. QED  BY <3>1, <3>3
  <2>. QED  BY <2>1, <2>2 DEF Decides
<1>7. Captured(<<>>, <<>>, 0, FALSE)
  <2>1. ByteLength(<<>>) = 0
    <3>1. PICK f : MeasuresTo(<<>>, f) /\ ByteLength(<<>>) = f[Len(<<>>)]  BY <1>1, ByteLengthIs
    <3>. QED  BY <1>1, <3>1 DEF MeasuresTo
  <2>2. IsPrefix(<<>>, <<>>)  BY <1>1, PrefixOf
  <2>3. 0 <= MaxCaptureBytes  BY RedactionAssumption
  <2>. QED  BY <1>1, <2>1, <2>2, <2>3 DEF Captured
<1>. QED  BY <1>4, <1>5, <1>6, <1>7

LEMMA SecretsKnown ==
  ASSUME RedactionTypeOK
  PROVE  /\ Secrets = SecretsOf(secretValues) /\ Secrets \in Seq(Words)
         /\ \A i, j \in 1..Len(Secrets) : i < j => Len(Secrets[i]) >= Len(Secrets[j])
         /\ Apart => ApartIn(Secrets)
         /\ \A t : Redact(t) = RedactBy(Secrets, t) /\ HoldLength(t) = HoldBy(Secrets, t)
<1>1. Secrets = SecretsOf(secretValues)  BY DEF Secrets, SecretsOf
<1>2. secretValues \in SecretSets  BY DEF RedactionTypeOK
<1>3. /\ Secrets \in Seq(Words)
      /\ \A i, j \in 1..Len(Secrets) : i < j => Len(Secrets[i]) >= Len(Secrets[j])
  BY <1>1, <1>2, SecretsAre
<1>4. Apart => ApartIn(Secrets)
  <2>1. \A i \in 1..Len(Secrets) : Secrets[i] \in Range(Secrets)  BY <1>3 DEF Range
  <2>. QED  BY <2>1 DEF Apart, ApartIn
<1>5. \A t : Redact(t) = RedactBy(Secrets, t)  BY DEF Redact, RedactBy
<1>6. \A t : HoldLength(t) = HoldBy(Secrets, t)  BY DEF HoldLength, HoldBy
<1>. QED  BY <1>1, <1>3, <1>4, <1>5, <1>6

LEMMA RedactionTypes ==
  RedactionTypeOK <=> /\ secretValues \in SecretSets
                      /\ received \in ByteText /\ Len(received) <= MaxReceived
                      /\ carry \in Text /\ emitted \in Text /\ text \in Text
                      /\ totalBytes \in Nat /\ truncated \in BOOLEAN /\ finished \in BOOLEAN
BY DEF RedactionTypeOK, ByteText, Text, Letters

LEMMA RedactionStarts ==
  ASSUME RedactionInit
  PROVE  RedactionInv
<1>. DEFINE q == SecretsOf(secretValues)
<1>1. <<>> \in Text /\ <<>> \in ByteText /\ Len(<<>>) = 0  BY LettersAre DEF ByteText
<1>2. RedactionTypeOK
  <2>1. secretValues \in SecretSets /\ truncated \in BOOLEAN /\ finished \in BOOLEAN
    BY Zenon DEF RedactionInit
  <2>2. received \in ByteText /\ carry \in Text /\ emitted \in Text /\ text \in Text
    BY <1>1, Zenon DEF RedactionInit
  <2>3. Len(received) <= MaxReceived /\ totalBytes \in Nat  BY <1>1, RedactionAssumption DEF RedactionInit
  <2>. QED  BY <2>1, <2>2, <2>3, RedactionTypes, Zenon
<1>3. q \in Seq(Words)  BY SecretsAre DEF RedactionInit
<1>. HIDE DEF q
<1>4. /\ Held(q, <<>>, <<>>) /\ Longest(q, <<>>, <<>>) /\ Decides(q, <<>>, <<>>, <<>>)
      /\ Captured(<<>>, <<>>, 0, FALSE)
  BY <1>3, StartKeeps
<1>5. /\ received = <<>> /\ carry = <<>> /\ emitted = <<>> /\ text = <<>>
      /\ totalBytes = 0 /\ truncated = FALSE /\ finished = FALSE
  BY DEF RedactionInit
<1>. QED  BY <1>2, <1>4, <1>5 DEF RedactionInv, q

\* What is given away is captured as far as it fits.
LEMMA AcceptKeeps ==
  ASSUME RedactionTypeOK, Captured(emitted, text, totalBytes, truncated), NEW new \in Text, Accept(new)
  PROVE  /\ emitted' = emitted \o new /\ emitted' \in Text /\ text' \in Text
         /\ totalBytes' \in Nat /\ truncated' \in BOOLEAN
         /\ Captured(emitted', text', totalBytes', truncated')
<1>. DEFINE kept == IF truncated THEN <<>> ELSE Utf8Prefix(new, MaxCaptureBytes - ByteLength(text))
<1>1. /\ emitted' = emitted \o new /\ totalBytes' = totalBytes + ByteLength(new)
      /\ text' = text \o kept /\ truncated' = (truncated \/ Len(kept) < Len(new))
  BY DEF Accept
<1>2. emitted \in Text /\ totalBytes \in Nat /\ truncated \in BOOLEAN  BY RedactionTypes
<1>3. /\ text \o kept \in Text
      /\ Captured(emitted \o new, text \o kept, totalBytes + ByteLength(new), (truncated \/ Len(kept) < Len(new)))
  <2>. DEFINE k == kept
  <2>1. k = IF truncated THEN <<>> ELSE Utf8Prefix(new, MaxCaptureBytes - ByteLength(text))  OBVIOUS
  <2>. HIDE DEF k
  <2>2. /\ text \o k \in Text
        /\ Captured(emitted \o new, text \o k, totalBytes + ByteLength(new), (truncated \/ Len(k) < Len(new)))
    BY <1>2, <2>1, CaptureKeeps
  <2>. QED  BY <2>2 DEF k
<1>. HIDE DEF kept
<1>4. totalBytes' \in Nat
  <2>1. ByteLength(new) \in Nat  BY ByteLengthJoins
  <2>. QED  BY <1>1, <1>2, <2>1
<1>5. emitted \o new \in Text  BY <1>2, JoinIs
<1>6. truncated' \in BOOLEAN  BY <1>1
<1>7. Captured(emitted', text', totalBytes', truncated')  BY <1>1, <1>3, Zenon
<1>. QED  BY <1>1, <1>3, <1>4, <1>5, <1>6, <1>7

LEMMA OnDataKeeps ==
  ASSUME RedactionInv, NEW chunk \in Chunks, OnData(chunk)
  PROVE  RedactionInv'
<1>. DEFINE q == Secrets
            m == Redact(carry \o Decode(chunk))
            k == Len(m) - HoldLength(m)
<1>1. RedactionTypeOK  BY DEF RedactionInv
<1>2. /\ q = SecretsOf(secretValues) /\ q \in Seq(Words)
      /\ \A t : Redact(t) = RedactBy(q, t) /\ HoldLength(t) = HoldBy(q, t)
  BY <1>1, SecretsKnown
<1>3. /\ ~finished /\ Len(received) + Len(chunk) <= MaxReceived /\ received' = received \o chunk
      /\ secretValues' = secretValues /\ finished' = finished
  BY DEF OnData
<1>4. carry' = Drop(m, k) /\ Accept(Take(m, k))  BY DEF OnData, Push, Drop, Take
<1>5. m = RedactBy(q, carry \o Decode(chunk)) /\ k = Len(m) - HoldBy(q, m)  BY <1>2
<1>. HIDE DEF q, m, k
<1>6. Held(q, emitted, carry) /\ Longest(q, emitted, carry) /\ Decides(q, received, emitted, carry)
  BY <1>2, <1>3 DEF RedactionInv
<1>7. Captured(emitted, text, totalBytes, truncated)  BY DEF RedactionInv
<1>8. chunk \in ByteText
  <2>1. (\E b \in Bytes : chunk = <<b>>) \/ \E b, c \in Bytes : chunk = <<b, c>>  BY DEF Chunks
  <2>2. (\A b \in Bytes : <<b>> \in ByteText) /\ \A b, c \in Bytes : <<b, c>> \in ByteText  BY DEF ByteText
  <2>. QED  BY <2>1, <2>2
<1>9. received \in ByteText /\ emitted \in Text /\ secretValues \in SecretSets /\ finished \in BOOLEAN
  BY <1>1, RedactionTypes
<1>10. /\ Take(m, k) \in Text
       /\ Held(q, emitted \o Take(m, k), Drop(m, k)) /\ Longest(q, emitted \o Take(m, k), Drop(m, k))
       /\ Decides(q, received \o chunk, emitted \o Take(m, k), Drop(m, k))
  <2>1. LET n == Len(m) - HoldBy(q, m)
        IN  /\ Take(m, n) \in Text
            /\ Held(q, emitted \o Take(m, n), Drop(m, n)) /\ Longest(q, emitted \o Take(m, n), Drop(m, n))
            /\ Decides(q, received \o chunk, emitted \o Take(m, n), Drop(m, n))
    BY <1>2, <1>5, <1>6, <1>8, <1>9, PushKeeps
  <2>. QED  BY <1>5, <2>1
<1>11. /\ emitted' = emitted \o Take(m, k) /\ emitted' \in Text /\ text' \in Text
       /\ totalBytes' \in Nat /\ truncated' \in BOOLEAN
       /\ Captured(emitted', text', totalBytes', truncated')
  BY <1>1, <1>4, <1>7, <1>10, AcceptKeeps
<1>12. Held(q, emitted', carry') /\ Longest(q, emitted', carry') /\ Decides(q, received', emitted', carry')
  BY <1>3, <1>4, <1>10, <1>11
<1>13. carry' \in Text  BY <1>12, PlainIs DEF Held
<1>14. received' \in ByteText /\ Len(received') <= MaxReceived  BY <1>3, <1>8, <1>9, BytesJoin
<1>15. RedactionTypeOK'
  <2>1. secretValues' \in SecretSets /\ finished' \in BOOLEAN  BY <1>3, <1>9
  <2>. QED  BY <1>11, <1>13, <1>14, <2>1 DEF RedactionTypeOK, ByteText, Text, Letters
<1>16. q = SecretsOf(secretValues') /\ ~finished'  BY <1>2, <1>3
<1>. QED  BY <1>11, <1>12, <1>15, <1>16 DEF RedactionInv

LEMMA FinishStepKeeps ==
  ASSUME RedactionInv, Finish
  PROVE  RedactionInv'
<1>. DEFINE q == Secrets
            z == Ending(received)
            m == Redact(carry \o z)
<1>1. RedactionTypeOK  BY DEF RedactionInv
<1>2. /\ q = SecretsOf(secretValues) /\ q \in Seq(Words)
      /\ \A t : Redact(t) = RedactBy(q, t)
  BY <1>1, SecretsKnown
<1>3. /\ ~finished /\ finished' = TRUE /\ carry' = <<>> /\ received' = received
      /\ secretValues' = secretValues
  BY DEF Finish
<1>4. Accept(m)  BY DEF Finish, Ending
<1>5. z \in Text
  <2>1. <<"?">> \in Text /\ <<>> \in Text  BY LettersAre DEF Text
  <2>. QED  BY <2>1 DEF Ending
<1>6. m = RedactBy(q, carry \o z)  BY <1>2
<1>. HIDE DEF q, z, m
<1>7. Held(q, emitted, carry) /\ Longest(q, emitted, carry) /\ Decides(q, received, emitted, carry)
  BY <1>2, <1>3 DEF RedactionInv
<1>8. Captured(emitted, text, totalBytes, truncated)  BY DEF RedactionInv
<1>9. /\ received \in ByteText /\ Len(received) <= MaxReceived
      /\ emitted \in Text /\ secretValues \in SecretSets
  BY <1>1, RedactionTypes
<1>10. /\ m \in Text /\ Held(q, emitted \o m, <<>>)
       /\ ApartIn(q) => emitted \o m = RedactBy(q, Decode(received) \o z)
  BY <1>2, <1>5, <1>6, <1>7, <1>9, FinishKeeps
<1>11. /\ emitted' = emitted \o m /\ emitted' \in Text /\ text' \in Text
       /\ totalBytes' \in Nat /\ truncated' \in BOOLEAN
       /\ Captured(emitted', text', totalBytes', truncated')
  BY <1>1, <1>4, <1>8, <1>10, AcceptKeeps
<1>12. Held(q, emitted', carry')  BY <1>3, <1>10, <1>11
<1>13. ApartIn(q) => emitted' = RedactBy(q, Decode(received') \o Ending(received'))
  BY <1>3, <1>10, <1>11 DEF z
<1>14. RedactionTypeOK'
  <2>1. /\ secretValues' \in SecretSets /\ finished' \in BOOLEAN /\ carry' \in Text
        /\ received' \in ByteText /\ Len(received') <= MaxReceived
    BY <1>3, <1>9, LettersAre
  <2>. QED  BY <1>11, <2>1 DEF RedactionTypeOK, ByteText, Text, Letters
<1>15. q = SecretsOf(secretValues')  BY <1>2, <1>3
<1>. QED  BY <1>3, <1>11, <1>12, <1>13, <1>14, <1>15 DEF RedactionInv

LEMMA RedactionInvariant == RedactionSpec => []RedactionInv
<1>1. RedactionInit => RedactionInv  BY RedactionStarts
<1>2. RedactionInv /\ [RedactionNext]_redactionVars => RedactionInv'
  <2>1. SUFFICES ASSUME RedactionInv, [RedactionNext]_redactionVars
                 PROVE  RedactionInv'
    OBVIOUS
  <2>2. CASE \E chunk \in Chunks : OnData(chunk)  BY <2>1, <2>2, OnDataKeeps
  <2>3. CASE Finish  BY <2>1, <2>3, FinishStepKeeps
  <2>4. CASE UNCHANGED redactionVars
    BY <2>1, <2>4 DEF RedactionInv, RedactionTypeOK, redactionVars
  <2>. QED  BY <2>1, <2>2, <2>3, <2>4 DEF RedactionNext
<1>. QED  BY <1>1, <1>2, PTL DEF RedactionSpec

\* Redaction: the list of the secrets, the bytes, the texts and the counts keep their
\* types, whatever the command prints and however it is cut (createStreamCapture).
THEOREM RedactionTypeCorrect == RedactionSpec => []RedactionTypeOK
<1>1. RedactionInv => RedactionTypeOK  BY DEF RedactionInv
<1>. QED  BY <1>1, RedactionInvariant, PTL

LEMMA InvRedactsWhole ==
  ASSUME RedactionInv
  PROVE  StreamRedactsWhole
<1>. DEFINE q == Secrets
<1>1. RedactionTypeOK  BY DEF RedactionInv
<1>2. /\ q = SecretsOf(secretValues) /\ q \in Seq(Words)
      /\ \A i, j \in 1..Len(q) : i < j => Len(q[i]) >= Len(q[j])
      /\ Apart => ApartIn(q)
      /\ \A t : Redact(t) = RedactBy(q, t)
  BY <1>1, SecretsKnown
<1>. HIDE DEF q
<1>3. Held(q, emitted, carry) /\ carry \in Text /\ emitted \in Text  BY <1>1, <1>2, RedactionTypes DEF RedactionInv
<1>4. Captured(emitted, text, totalBytes, truncated)  BY DEF RedactionInv
<1>5. \A i \in 1..Len(q) : q[i] \in Words /\ Len(q[i]) \in Nat
  <2>1. \A i \in 1..Len(q) : q[i] \in Words  BY <1>2
  <2>. QED  BY <2>1, WordIs
<1>6. finished /\ Apart =>
        emitted = Redact(Decode(received) \o IF InsideCharacter(received) THEN <<"?">> ELSE <<>>)
  <2>1. SUFFICES ASSUME finished, Apart
                 PROVE  emitted = Redact(Decode(received) \o Ending(received))
    BY DEF Ending
  <2>2. emitted = RedactBy(q, Decode(received) \o Ending(received))  BY <1>2, <2>1 DEF RedactionInv
  <2>. QED  BY <1>2, <2>2
<1>7. \A i \in DOMAIN q : ~Occurs(q[i], emitted)
  <2>1. SUFFICES ASSUME NEW i \in 1..Len(q), Occurs(q[i], emitted)  PROVE FALSE  BY <1>2
  <2>2. Occurs(q[i], emitted \o carry)  BY <1>3, <1>5, <2>1, OccursJoined
  <2>. QED  BY <1>3, <2>2 DEF Held
<1>8. carry # <<>> => Len(carry) < Len(q[1])
  <2>1. SUFFICES ASSUME carry # <<>>  PROVE Len(carry) < Len(q[1])  OBVIOUS
  <2>2. PICK i \in 1..Len(q) : Begins(carry, q[i])  BY <1>3, <2>1 DEF Held
  <2>3. Len(carry) < Len(q[i]) /\ Len(carry) \in Nat  BY <1>3, <2>2, LettersOf DEF Begins
  <2>4. 1 \in 1..Len(q) /\ (1 < i \/ i = 1)  BY <1>2
  <2>5. Len(q[1]) >= Len(q[i])
    <3>1. CASE i = 1  BY <1>5, <3>1
    <3>2. CASE 1 < i  BY <1>2, <2>4, <3>2
    <3>. QED  BY <2>4, <3>1, <3>2
  <2>. QED  BY <1>5, <2>3, <2>4, <2>5
<1>9. /\ IsPrefix(text, emitted) /\ truncated = (text # emitted)
      /\ ByteLength(text) <= MaxCaptureBytes /\ totalBytes = ByteLength(emitted)
      /\ truncated => ByteLength(text) + Width(emitted[Len(text) + 1]) > MaxCaptureBytes
  BY <1>4 DEF Captured
<1>. QED  BY <1>6, <1>7, <1>8, <1>9 DEF StreamRedactsWhole, q

\* However the output of a command is cut into chunks, it comes out as if it had been
\* masked at once, as long as no two secrets overlap; no secret is ever given away whole,
\* and of what is captured it is known whether it is all (createStreamingRedactor, createStreamCapture).
THEOREM StreamIsRedactedWhole == RedactionSpec => []StreamRedactsWhole
<1>1. RedactionInv => StreamRedactsWhole  BY InvRedactsWhole
<1>. QED  BY <1>1, RedactionInvariant, PTL

-----------------------------------------------------------------------------
(* The four side by side, as they are checked: each takes its own steps.   *)

LEMMA SideBySide ==
  /\ EvidenceSpec => StoreSpec
  /\ EvidenceSpec => SessionSpec
  /\ EvidenceSpec => CallsSpec
  /\ EvidenceSpec => RedactionSpec
<1>1. EvidenceInit => StoreInit /\ SessionInit /\ CallsInit /\ RedactionInit  BY DEF EvidenceInit
<1>2. [EvidenceNext]_evidenceVars => [StoreNext]_storeVars  BY DEF EvidenceNext, evidenceVars
<1>3. [EvidenceNext]_evidenceVars => [SessionNext]_sessionVars  BY DEF EvidenceNext, evidenceVars
<1>4. [EvidenceNext]_evidenceVars => [CallsNext]_callVars  BY DEF EvidenceNext, evidenceVars
<1>5. [EvidenceNext]_evidenceVars => [RedactionNext]_redactionVars  BY DEF EvidenceNext, evidenceVars
<1>. QED  BY <1>1, <1>2, <1>3, <1>4, <1>5, PTL
          DEF EvidenceSpec, StoreSpec, SessionSpec, CallsSpec, RedactionSpec

\* The store, the session, the calls and the redaction keep their types together.
THEOREM EvidenceTypeCorrect == EvidenceSpec => []EvidenceTypeOK
<1>1. StoreTypeOK /\ SessionTypeOK /\ CallsTypeOK /\ RedactionTypeOK => EvidenceTypeOK  BY DEF EvidenceTypeOK
<1>. QED  BY <1>1, SideBySide, StoreTypeCorrect, SessionTypeCorrect, CallsTypeCorrect, RedactionTypeCorrect, PTL
===================================================================================
