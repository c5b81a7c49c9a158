----------------------------- MODULE SourcesProofs -----------------------------
(***************************************************************************)
(* Proofs about the probe of the commands that cases will start, for every *)
(* configuration and every set of files in the operator's directory; and   *)
(* about the seven components side by side, as the run `sources` checks    *)
(* them: what is proved of each holds of the behaviours of that run, for   *)
(* every value of the constants.                                           *)
(***************************************************************************)
EXTENDS SourcesMC, GitWorkspaceProofs, ManagedCloneProofs, TaskAddProofs

-----------------------------------------------------------------------------
(* The probe of the commands (CaseExecutables): its invariant.             *)

\* What git status lists a file for.
Shown(f, state, ignoring) ==
  IF f \in TrackedFiles THEN state # "base" ELSE f \notin ignoring /\ state # "absent"

\* A list that is not used yet is right about what has not changed since.
ListingFits ==
  listing # {"unread"} =>
    /\ probe \in {"before", "after"} /\ Watching /\ listing \subseteq ProbeFiles
    /\ \A f \in ProbeFiles \ torn : f \in listing <=> Shown(f, files[f], hidden)

\* The last snapshot is right about what did not change while it was taken.
SnapshotFits ==
  /\ truth.files \in [ProbeFiles -> FileStates] /\ truth.hidden \subseteq UntrackedFiles
  /\ probe \in {"run", "after"} /\ Watching =>
       \A f \in ProbeFiles \ torn :
         /\ f \in previous.listed <=> Shown(f, truth.files[f], truth.hidden)
         /\ f \in previous.listed => f \in DOMAIN previous.states /\ previous.states[f] = truth.files[f]

\* A command that runs in tevu's own environment and lacks something in its case.
Lacks(i) == Finds(i, ParentEnvironment) /\ ~Finds(i, ReplicaEnvironment(i))
RightOf(v, i, late) == IF v = "parent-only" THEN Lacks(i) ELSE late \/ ~Lacks(i)
Right(v, i) == RightOf(v, i, slow)

\* The probe comes to a verdict that is right of its location.
FateFits ==
  /\ probe # "none" => validating = "executables" /\ location \in Located /\ Judged(location)
  /\ probe = "before" => fate = "none"
  /\ probe = "run" => fate = "none" /\ (running = "parent" => ~Finds(location, ReplicaEnvironment(location)))
  /\ probe = "after" => fate # "error" /\ (fate = "none" => running = "replica"
                                             /\ ~Finds(location, ReplicaEnvironment(location)))
  /\ probe = "removing" => fate # "none"
  /\ probe # "none" /\ fate \in Verdicts => Right(fate, location)

\* A verdict is right of every location that shares its key.
VerdictsFit ==
  \A i \in Located : CaseExecutableProbeKey(i) \in DOMAIN verdicts => Right(verdicts[CaseExecutableProbeKey(i)], i)

FindingsFit ==
  /\ \A i \in Located : Wanting(i) => Lacks(i)
  /\ \A i \in Located : i < location /\ Judged(i) /\ Lacks(i) => slow \/ Wanting(i)
  /\ validating \in {"capabilities", "done"} => Stopped \/ location \notin Located
  /\ validating # "done" => capable = {}
  /\ \A i \in Located : Wanting(i) => Where(i).agent \notin capable
  /\ leftover => [kind |-> "prerequisite"] \in notices

\* What a run is said to have changed and what it did.
Agree(o, a) == o.run = a.run /\ a.known /\ \A f \in ProbeFiles \ a.torn : a.change[f] = o.change[f]

ObservedFits ==
  /\ probe = "none" => observed = {}
  /\ \A o \in observed : \E a \in altered : a.at = location /\ Agree(o, a)
  /\ \A a \in altered : a.at \in Nat /\ a.at <= location
  /\ probe = "none" /\ validating \in {"environment", "executables"} => \A a \in altered : a.at < location
  /\ probe # "none" => \A a \in altered : a.at = location =>
                          IF a.known THEN \E o \in observed : Agree(o, a) ELSE unchecked

ToldFits ==
  /\ \A n \in notices : n.kind = "changed" => \E a \in altered : a.at = n.at /\ Agree(n, a)
  /\ \A a \in altered : a.at < location =>
       IF a.known
       THEN \/ \A f \in ProbeFiles \ a.torn : a.change[f] = "none"
            \/ \E n \in notices : n.kind = "changed" /\ n.at = a.at /\ n.run = a.run
       ELSE [kind |-> "unchecked", at |-> a.at] \in notices

ProbeInv ==
  /\ ProbeTypeOK /\ ListingFits /\ SnapshotFits /\ FateFits /\ VerdictsFit /\ FindingsFit
  /\ ObservedFits /\ ToldFits

-----------------------------------------------------------------------------
(* The commands.                                                           *)

\* Lists in a row are a list.
LEMMA FlattenIsList ==
  ASSUME NEW S, NEW lists, NEW n \in Nat, lists = [i \in 1..n |-> lists[i]], \A i \in 1..n : lists[i] \in Seq(S)
  PROVE  FlattenSeq(lists) \in Seq(S)
<1>0. lists \in Seq(Seq(S)) /\ Len(lists) = n /\ DOMAIN lists = 1..n  OBVIOUS
<1>1. CASE n = 0
  <2>1. lists = <<>>  BY <1>0, <1>1
  <2>2. FlattenSeq(lists) = lists  BY <1>0, <1>1 DEF FlattenSeq
  <2>3. <<>> \in Seq(S)  OBVIOUS
  <2>. QED  BY <2>1, <2>2, <2>3, Zenon
<1>2. CASE n # 0
  <2>. DEFINE Join(g, i) == IF i = 1 THEN lists[i] ELSE g[i-1] \o lists[i]
              Bad == {m \in 1..n : ~\E g \in [1..m -> Seq(S)] : g = [i \in 1..m |-> Join(g, i)]}
  <2>1. Bad = {}
    <3>1. SUFFICES ASSUME Bad # {}  PROVE FALSE  OBVIOUS
    <3>2. Bad \subseteq Nat
      <4>. HIDE DEF Join
      <4>. QED  OBVIOUS
    <3>3. PICK m \in Bad : \A k \in Bad : m <= k
      <4>. HIDE DEF Bad
      <4>. QED  BY <3>1, <3>2, LeastNumber
    <3>4. m \in 1..n /\ m \in Nat /\ ~\E g \in [1..m -> Seq(S)] : g = [i \in 1..m |-> Join(g, i)]
      <4>. HIDE DEF Join
      <4>. QED  OBVIOUS
    <3>5. CASE m = 1
      <4>. DEFINE g == [i \in 1..1 |-> lists[1]]
      <4>1. g = [i \in 1..1 |-> Join(g, i)]  OBVIOUS
      <4>2. g \in [1..1 -> Seq(S)]
        <5>1. 1 \in 1..n  BY <3>4
        <5>. QED  BY <5>1
      <4>. QED  BY <3>4, <3>5, <4>1, <4>2
    <3>6. CASE m # 1
      <4>1. m - 1 \in 1..n /\ ~(m <= m - 1)  BY <3>4, <3>6
      <4>2. m - 1 \notin Bad
        <5>. HIDE DEF Bad
        <5>. QED  BY <3>3, <4>1
      <4>3. PICK g \in [1..(m - 1) -> Seq(S)] : g = [i \in 1..(m - 1) |-> Join(g, i)]  BY <4>1, <4>2
      <4>. DEFINE h == [i \in 1..m |-> IF i = m THEN Join(g, m) ELSE g[i]]
      <4>4. \A i \in 1..(m - 1) : g[i] = Join(g, i)  BY <4>3
      <4>5. Join(g, m) \in Seq(S)
        <5>1. m - 1 \in 1..(m - 1)  BY <3>4, <3>6
        <5>2. g[m - 1] \in Seq(S)
          <6>. HIDE DEF Join
          <6>. QED  BY <4>3, <5>1
        <5>3. lists[m] \in Seq(S)  BY <3>4
        <5>. QED  BY <3>6, <5>2, <5>3
      <4>6. h \in [1..m -> Seq(S)]
        <5>1. \A i \in 1..m : i # m => i \in 1..(m - 1)  BY <3>4
        <5>. HIDE DEF Join
        <5>. QED  BY <4>3, <4>5, <5>1
      <4>7. \A i \in 1..m : h[i] = Join(h, i)
        <5>1. TAKE i \in 1..m
        <5>2. i # 1 => h[i - 1] = g[i - 1] /\ i - 1 \in 1..(m - 1)  BY <3>4
        <5>3. Join(h, i) = Join(g, i)  BY <5>2
        <5>4. CASE i = m  BY <5>3, <5>4
        <5>5. CASE i # m
          <6>1. i \in 1..(m - 1)  BY <3>4, <5>5
          <6>2. h[i] = g[i]  BY <5>5
          <6>. QED  BY <4>4, <5>3, <6>1, <6>2
        <5>. QED  BY <5>4, <5>5
      <4>8. h = [i \in 1..m |-> h[i]]  OBVIOUS
      <4>9. h = [i \in 1..m |-> Join(h, i)]
        <5>. HIDE DEF h, Join
        <5>. QED  BY <4>7, <4>8
      <4>. HIDE DEF h, Join
      <4>. QED  BY <3>4, <4>6, <4>9
    <3>. QED  BY <3>5, <3>6
  <2>2. n \in 1..n  BY <1>2
  <2>3. PICK f \in [1..n -> Seq(S)] : f = [i \in 1..n |-> Join(f, i)]
    <3>. HIDE DEF Join
    <3>. QED  BY <2>1, <2>2
  <2>4. ASSUME NEW g, g = [i \in 1..n |-> Join(g, i)]
        PROVE  g[n] \in Seq(S)
    <3>. DEFINE Odd == {m \in 1..n : g[m] \notin Seq(S)}
    <3>1. SUFFICES ASSUME Odd # {}  PROVE FALSE  BY <2>2
    <3>2. PICK m \in Odd : \A k \in Odd : m <= k
      <4>1. Odd \subseteq Nat  OBVIOUS
      <4>. HIDE DEF Odd
      <4>. QED  BY <3>1, <4>1, LeastNumber
    <3>3. m \in 1..n /\ g[m] = Join(g, m)
      <4>1. m \in 1..n  OBVIOUS
      <4>. HIDE DEF Join
      <4>. QED  BY <2>4, <4>1
    <3>4. CASE m = 1  BY <3>2, <3>3, <3>4
    <3>5. CASE m # 1
      <4>1. m - 1 \in 1..n /\ ~(m <= m - 1)  BY <3>3, <3>5
      <4>2. m - 1 \notin Odd
        <5>. HIDE DEF Odd
        <5>. QED  BY <3>2, <4>1
      <4>3. g[m - 1] \in Seq(S) /\ lists[m] \in Seq(S)  BY <3>3, <4>1, <4>2
      <4>4. g[m] = g[m - 1] \o lists[m]  BY <3>3, <3>5
      <4>5. g[m] \in Seq(S)  BY <4>3, <4>4
      <4>. QED  BY <3>2, <4>5
    <3>. QED  BY <3>4, <3>5
  <2>. DEFINE flatten == CHOOSE g : g = [i \in 1..n |-> Join(g, i)]
  <2>5. FlattenSeq(lists) = flatten[n]  BY <1>0, <1>2 DEF FlattenSeq
  <2>6. flatten = [i \in 1..n |-> Join(flatten, i)]
    <3>. HIDE DEF Join
    <3>. QED  BY <2>3
  <2>. HIDE DEF flatten, Join
  <2>. QED  BY <2>4, <2>5, <2>6
<1>. QED  BY <1>1, <1>2

\* The locations are numbered from one.
LEMMA LocatedIs ==
  Len(CaseExecutableLocations) \in Nat /\ Located = 1..Len(CaseExecutableLocations)
<1>. DEFINE path(id) == \E r \in ToSet(ProbeConfig.repositories) : r.id = id /\ ~r.github
            used(id) == \E t \in ToSet(ProbeConfig.tasks) : t.repo = id
            command(c, directory, agent) ==
              [executable |-> c.executable, additions |-> c.names, inDirectory |-> directory, agent |-> agent]
            agents == [i \in DOMAIN ProbeConfig.agents |->
                         command(ProbeConfig.agents[i], FALSE, ProbeConfig.agents[i].name)]
            setup == [i \in DOMAIN ProbeConfig.repositories |->
                        LET r == ProbeConfig.repositories[i]
                        IN [j \in DOMAIN r.setup |-> command(r.setup[j], path(r.id), "none")]]
            inUse == [i \in DOMAIN setup |-> IF used(ProbeConfig.repositories[i].id) THEN setup[i] ELSE <<>>]
            run == [i \in DOMAIN ProbeConfig.tasks |->
                      LET t == ProbeConfig.tasks[i]
                      IN [j \in DOMAIN t.checks |-> command(t.checks[j], path(t.repo), "none")]]
            SetupOf(i) == {setup[i][j] : j \in DOMAIN ProbeConfig.repositories[i].setup}
            RunOf(i) == {run[i][j] : j \in DOMAIN ProbeConfig.tasks[i].checks}
            AgentCommands == {agents[i] : i \in DOMAIN agents}
            SetupCommands == UNION {SetupOf(i) : i \in DOMAIN ProbeConfig.repositories}
            CheckCommands == UNION {RunOf(i) : i \in DOMAIN ProbeConfig.tasks}
            S == AgentCommands \cup SetupCommands \cup CheckCommands
<1>1. \A s : IsList(s) => \E n \in Nat : DOMAIN s = 1..n
  BY DEF IsList
<1>2. PICK n \in Nat : DOMAIN ProbeConfig.agents = 1..n
  BY <1>1, ProbeAssumption DEF ProbeAssumption
<1>3. PICK m \in Nat : DOMAIN ProbeConfig.repositories = 1..m
  BY <1>1, ProbeAssumption DEF ProbeAssumption
<1>4. PICK k \in Nat : DOMAIN ProbeConfig.tasks = 1..k
  BY <1>1, ProbeAssumption DEF ProbeAssumption
<1>5. \A i \in 1..m : \E l \in Nat : DOMAIN ProbeConfig.repositories[i].setup = 1..l
  BY <1>1, <1>3, ProbeAssumption DEF ProbeAssumption, ToSet
<1>6. \A i \in 1..k : \E l \in Nat : DOMAIN ProbeConfig.tasks[i].checks = 1..l
  BY <1>1, <1>4, ProbeAssumption DEF ProbeAssumption, ToSet
<1>7. CaseExecutableLocations = agents \o FlattenSeq(inUse) \o FlattenSeq(run)
  BY DEF CaseExecutableLocations
<1>. HIDE DEF path, used, command
<1>8. agents \in Seq(S)
  <2>1. agents = [i \in 1..n |-> agents[i]] /\ \A i \in 1..n : agents[i] \in S  BY <1>2
  <2>. HIDE DEF agents, S
  <2>. QED  BY <2>1
<1>9. \A i \in 1..m : setup[i] \in Seq(S)
  <2>1. TAKE i \in 1..m
  <2>2. PICK l \in Nat : DOMAIN ProbeConfig.repositories[i].setup = 1..l  BY <1>5
  <2>3. setup[i] = [j \in 1..l |-> setup[i][j]]  BY <1>3, <2>2
  <2>4. \A j \in 1..l : setup[i][j] \in S
    <3>. HIDE DEF setup, agents, run
    <3>1. \A j \in 1..l : setup[i][j] \in SetupOf(i)  BY <2>2
    <3>. HIDE DEF SetupOf
    <3>2. SetupOf(i) \subseteq S  BY <1>3
    <3>. QED  BY <3>1, <3>2
  <2>. HIDE DEF setup, S
  <2>. QED  BY <2>3, <2>4
<1>10. \A i \in 1..k : run[i] \in Seq(S)
  <2>1. TAKE i \in 1..k
  <2>2. PICK l \in Nat : DOMAIN ProbeConfig.tasks[i].checks = 1..l  BY <1>6
  <2>3. run[i] = [j \in 1..l |-> run[i][j]]  BY <1>4, <2>2
  <2>4. \A j \in 1..l : run[i][j] \in S
    <3>. HIDE DEF setup, agents, run
    <3>1. \A j \in 1..l : run[i][j] \in RunOf(i)  BY <2>2
    <3>. HIDE DEF RunOf, SetupOf
    <3>2. i \in DOMAIN ProbeConfig.tasks  BY <1>4
    <3>3. RunOf(i) \in {RunOf(x) : x \in DOMAIN ProbeConfig.tasks}  BY <3>2
    <3>4. RunOf(i) \subseteq UNION {RunOf(x) : x \in DOMAIN ProbeConfig.tasks}  BY <3>3, Zenon
    <3>5. UNION {RunOf(x) : x \in DOMAIN ProbeConfig.tasks} \subseteq S
      <4>. HIDE DEF AgentCommands, SetupCommands
      <4>1. CheckCommands = UNION {RunOf(x) : x \in DOMAIN ProbeConfig.tasks}  OBVIOUS
      <4>. HIDE DEF CheckCommands
      <4>. QED  BY <4>1
    <3>. QED  BY <3>1, <3>4, <3>5
  <2>. HIDE DEF run, S
  <2>. QED  BY <2>3, <2>4
<1>11. inUse = [i \in 1..m |-> inUse[i]] /\ \A i \in 1..m : inUse[i] \in Seq(S)
  <2>1. DOMAIN setup = 1..m  BY <1>3
  <2>. HIDE DEF setup, S
  <2>2. <<>> \in Seq(S)  OBVIOUS
  <2>. QED  BY <1>9, <2>1, <2>2
<1>12. run = [i \in 1..k |-> run[i]]  BY <1>4
<1>. HIDE DEF agents, setup, inUse, run, S
<1>13. FlattenSeq(inUse) \in Seq(S)  BY <1>11, FlattenIsList
<1>14. FlattenSeq(run) \in Seq(S)  BY <1>10, <1>12, FlattenIsList
<1>15. CaseExecutableLocations \in Seq(S)  BY <1>7, <1>8, <1>13, <1>14
<1>. QED  BY <1>15 DEF Located

-----------------------------------------------------------------------------
(* Types.                                                                  *)

LEMMA ProbeTypes ==
  ASSUME ProbeInv
  PROVE  /\ validating \in {"environment", "executables", "capabilities", "done"}
         /\ location \in Nat \ {0} /\ location <= Len(CaseExecutableLocations) + 1
         /\ probe \in {"none", "before", "run", "after", "removing"} /\ running \in {"replica", "parent"}
         /\ fate \in Verdicts \cup {"none", "error"}
         /\ DOMAIN verdicts \subseteq Keys /\ \A k \in DOMAIN verdicts : verdicts[k] \in Verdicts
         /\ files \in [ProbeFiles -> FileStates] /\ hidden \subseteq UntrackedFiles
         /\ listing \subseteq ProbeFiles \cup {"unread"} /\ previous.listed \subseteq ProbeFiles
         /\ unchecked \in BOOLEAN /\ leftover \in BOOLEAN /\ slow \in BOOLEAN /\ torn \subseteq ProbeFiles
         /\ capable \subseteq AgentsAt /\ writings \in 0..MaxWrites /\ intrusions \in 0..MaxIntrusions
BY DEF ProbeInv, ProbeTypeOK

\* A step that is not of the probe of one location.
Aside == CollectEnvironmentFindings \/ NoProbeDirectory \/ PassLocation \/ EndLocations \/ ProbeAgents

LEMMA ProbeSteps ==
  ASSUME ProbeNext
  PROVE  \/ Aside \/ BeginProbe \/ SnapshotFails \/ SnapshotLists \/ DirectorySnapshot \/ SnapshotSkipped
         \/ EnvironmentFails \/ RunProbe \/ RemoveProbeDirectory \/ Intrude
BY DEF ProbeNext, Aside

LEMMA AsideIs ==
  ASSUME ProbeInv, Aside
  PROVE  /\ probe = "none" /\ probe' = "none"
         /\ UNCHANGED <<running, fate, files, hidden, writings, intrusions, torn, listing, previous, unchecked,
                        observed, truth, altered, verdicts, leftover, slow>>
<1>1. probe = "none"
  <2>1. validating # "executables" \/ probe = "none"
    BY DEF Aside, CollectEnvironmentFindings, NoProbeDirectory, PassLocation, EndLocations, ProbeAgents
  <2>. QED  BY <2>1 DEF ProbeInv, FateFits
<1>2. UNCHANGED <<running, fate, files, hidden, writings, intrusions, torn, listing, previous, unchecked,
                        observed, truth, altered, verdicts, leftover, slow>> /\ UNCHANGED probe
  BY DEF Aside, CollectEnvironmentFindings, NoProbeDirectory, PassLocation, EndLocations, ProbeAgents, StopProbing,
     directoryVars, snapshotVars, reportVars
<1>. QED  BY <1>1, <1>2

-----------------------------------------------------------------------------
(* The snapshots.                                                          *)

LEMMA ShownIs ==
  ASSUME ProbeInv
  PROVE  /\ GitStatus \subseteq ProbeFiles /\ GitStatus # {"unread"}
         /\ \A f \in ProbeFiles : f \in GitStatus <=> Shown(f, files[f], hidden)
<1>1. TrackedFiles \cap UntrackedFiles = {} /\ "unread" \notin ProbeFiles
  BY ProbeAssumption DEF ProbeAssumption
<1>2. GitStatus \subseteq ProbeFiles  BY DEF GitStatus, ProbeFiles
<1>3. \A f \in ProbeFiles : f \in GitStatus <=> Shown(f, files[f], hidden)
  BY <1>1 DEF GitStatus, Shown, ProbeFiles
<1>. QED  BY <1>1, <1>2, <1>3

LEMMA ListingKeeps ==
  ASSUME ProbeInv, ProbeNext
  PROVE  ListingFits'
<1>0. ListingFits /\ files \in [ProbeFiles -> FileStates]  BY ProbeTypes DEF ProbeInv
<1>1. CASE Aside
  <2>1. probe = "none" /\ listing' = listing  BY <1>1, AsideIs
  <2>. QED  BY <1>0, <2>1 DEF ListingFits
<1>2. CASE SnapshotLists
  <2>1. /\ probe \in {"before", "after"} /\ probe' = probe /\ listing' = GitStatus
        /\ files' = files /\ hidden' = hidden /\ torn' = torn /\ Watching /\ UNCHANGED <<location, unchecked>>
    BY <1>2 DEF SnapshotLists, probeSteps, directoryVars
  <2>2. Watching'  BY <2>1 DEF Watching
  <2>. QED  BY <2>1, <2>2, ShownIs DEF ListingFits
<1>3. CASE SnapshotFails \/ DirectorySnapshot \/ RemoveProbeDirectory
  <2>1. listing' = {"unread"}  BY <1>3 DEF SnapshotFails, DirectorySnapshot, RemoveProbeDirectory, EndProbe
  <2>. QED  BY <2>1 DEF ListingFits
<1>4. CASE BeginProbe \/ EnvironmentFails \/ RunProbe
  <2>1. listing' = listing /\ probe \in {"none", "run"}
    BY <1>4 DEF BeginProbe, EnvironmentFails, RunProbe, snapshotVars
  <2>. QED  BY <1>0, <2>1 DEF ListingFits
<1>5. CASE SnapshotSkipped
  <2>1. ~Watching /\ listing' = listing /\ UNCHANGED <<files, hidden, torn>> /\ probe' \in {"run", "removing"}
    BY <1>5 DEF SnapshotSkipped, directoryVars, Resume
  <2>2. listing = {"unread"}  BY <1>0, <2>1 DEF ListingFits
  <2>. QED  BY <1>0, <2>1, <2>2 DEF ListingFits
<1>6. CASE Intrude
  <2>1. /\ listing' = listing /\ probe' = probe /\ hidden' = hidden /\ UNCHANGED <<location, unchecked>>
    BY <1>6 DEF Intrude, probeSteps, snapshotVars
  <2>2. PICK f \in ProbeFiles, x \in FileStates :
          files' = [files EXCEPT ![f] = x] /\ torn' = IF listing = {"unread"} THEN torn ELSE torn \cup {f}
    BY <1>6 DEF Intrude
  <2>3. \A g \in ProbeFiles \ {f} : files'[g] = files[g]  BY <1>0, <2>2
  <2>4. Watching' <=> Watching  BY <2>1 DEF Watching
  <2>. QED  BY <1>0, <2>1, <2>2, <2>3, <2>4 DEF ListingFits
<1>. QED  BY <1>1, <1>2, <1>3, <1>4, <1>5, <1>6, ProbeSteps

\* The snapshot that is taken now is right, but for what changed since the list was read.
LEMMA SnapshotIs ==
  ASSUME ProbeInv, DirectorySnapshot
  PROVE  /\ listing \subseteq ProbeFiles
         /\ previous' = [listed |-> listing, states |-> StatesOf(listing, previous.listed)]
         /\ \A f \in listing \cup previous.listed : StatesOf(listing, previous.listed)[f] = files[f]
         /\ DOMAIN StatesOf(listing, previous.listed) = listing \cup previous.listed
         /\ \A f \in ProbeFiles \ torn : f \in listing <=> Shown(f, files[f], hidden)
         /\ truth' = [files |-> files, hidden |-> hidden]
         /\ files' = files /\ hidden' = hidden /\ torn' = torn /\ unchecked' = unchecked /\ location' = location
BY DEF DirectorySnapshot, ProbeInv, ListingFits, StatesOf, directoryVars

LEMMA SnapshotKeeps ==
  ASSUME ProbeInv, ProbeNext
  PROVE  SnapshotFits' /\ previous'.listed \subseteq ProbeFiles
<1>0. /\ SnapshotFits /\ files \in [ProbeFiles -> FileStates] /\ hidden \subseteq UntrackedFiles
      /\ previous.listed \subseteq ProbeFiles
  BY ProbeTypes DEF ProbeInv
<1>1. CASE Aside
  <2>1. probe' = "none" /\ truth' = truth /\ previous' = previous  BY <1>1, AsideIs
  <2>. QED  BY <1>0, <2>1 DEF SnapshotFits
<1>2. CASE BeginProbe \/ SnapshotLists \/ EnvironmentFails
  <2>1. /\ truth' = truth /\ previous' = previous
        /\ probe' \in {"before", "removing"} \/ UNCHANGED <<probe, torn, location, unchecked>>
    BY <1>2 DEF BeginProbe, SnapshotLists, EnvironmentFails, probeSteps, directoryVars, snapshotVars
  <2>2. CASE probe' \in {"before", "removing"}  BY <1>0, <2>1, <2>2 DEF SnapshotFits
  <2>3. CASE UNCHANGED <<probe, torn, location, unchecked>>  BY <1>0, <2>1, <2>3 DEF SnapshotFits, Watching
  <2>. QED  BY <2>1, <2>2, <2>3
<1>3. CASE SnapshotFails \/ SnapshotSkipped
  <2>1. truth' = truth /\ previous' = previous
    BY <1>3 DEF SnapshotFails, SnapshotSkipped
  <2>2. ~Watching'
    BY <1>3 DEF SnapshotFails, SnapshotSkipped, Watching, snapshotVars
  <2>. QED  BY <1>0, <2>1, <2>2 DEF SnapshotFits
<1>4. CASE DirectorySnapshot
  <2>. DEFINE states == StatesOf(listing, previous.listed)
  <2>1. /\ listing \subseteq ProbeFiles
        /\ previous' = [listed |-> listing, states |-> states]
        /\ \A f \in listing \cup previous.listed : states[f] = files[f]
        /\ DOMAIN states = listing \cup previous.listed
        /\ \A f \in ProbeFiles \ torn : f \in listing <=> Shown(f, files[f], hidden)
        /\ truth' = [files |-> files, hidden |-> hidden]
        /\ torn' = torn
    BY <1>4, SnapshotIs
  <2>. HIDE DEF states
  <2>2. truth'.files = files /\ truth'.hidden = hidden /\ previous'.listed = listing /\ previous'.states = states
    BY <2>1
  <2>. QED  BY <1>0, <2>1, <2>2 DEF SnapshotFits
<1>5. CASE RunProbe
  <2>1. probe = "run" /\ truth' = truth /\ previous' = previous /\ torn' = torn /\ location' = location
        /\ unchecked' = unchecked
    BY <1>5 DEF RunProbe, snapshotVars
  <2>2. Watching' <=> Watching  BY <2>1 DEF Watching
  <2>. QED  BY <1>0, <2>1, <2>2 DEF SnapshotFits
<1>6. CASE RemoveProbeDirectory
  <2>1. probe' = "none" /\ previous' = NoSnapshot /\ truth' = [files |-> files, hidden |-> hidden]
    BY <1>6 DEF RemoveProbeDirectory, EndProbe
  <2>2. previous'.listed = {} /\ truth'.files = files /\ truth'.hidden = hidden  BY <2>1 DEF NoSnapshot
  <2>. QED  BY <1>0, <2>1, <2>2 DEF SnapshotFits
<1>7. CASE Intrude
  <2>1. /\ UNCHANGED <<probe, location, unchecked, truth, previous>> /\ torn \subseteq torn'
    BY <1>7 DEF Intrude, probeSteps, snapshotVars
  <2>2. Watching' <=> Watching  BY <2>1 DEF Watching
  <2>. QED  BY <1>0, <2>1, <2>2 DEF SnapshotFits
<1>. QED  BY <1>1, <1>2, <1>3, <1>4, <1>5, <1>6, <1>7, ProbeSteps

\* What two snapshots make of a file is what happened to it.
LEMMA ChangeIs ==
  ASSUME NEW f \in ProbeFiles, NEW w \in FileStates, NEW x \in FileStates,
         NEW old, NEW new, NEW earlier \in SUBSET UntrackedFiles, NEW after \in SUBSET UntrackedFiles,
         f \in old.listed <=> Shown(f, w, earlier), f \in old.listed => old.states[f] = w,
         f \in new.listed <=> Shown(f, x, after),
         f \in old.listed \cup new.listed => f \in DOMAIN new.states /\ new.states[f] = x,
         f \in DOMAIN new.states <=> f \in old.listed \cup new.listed,
         truth.files[f] = w, truth.hidden = earlier, files[f] = x, hidden = after
  PROVE  ClassifyPath(old, new, f) = Difference(f)
<1>0. TrackedFiles \cap UntrackedFiles = {}  BY ProbeAssumption DEF ProbeAssumption
<1>. DEFINE was == IF f \in earlier THEN "absent" ELSE w
            is == IF f \in after /\ (f \in earlier \/ w = "absent") THEN "absent" ELSE x
<1>1. Difference(f) = (CASE was = is -> "none"
                         [] was = "absent" /\ is # "absent" -> "added"
                         [] was # "absent" /\ is = "absent" -> "removed"
                         [] OTHER -> "modified")
  BY DEF Difference
<1>2. CASE f \in TrackedFiles
  <2>1. f \notin UntrackedFiles /\ f \notin earlier /\ f \notin after  BY <1>0, <1>2
  <2>2. was = w /\ is = x  BY <2>1
  <2>3. (f \in old.listed <=> w # "base") /\ (f \in new.listed <=> x # "base")  BY <1>2 DEF Shown
  <2>4. CASE f \in old.listed
    BY <1>1, <2>2, <2>3, <2>4 DEF ClassifyPath
  <2>5. CASE f \notin old.listed
    BY <1>1, <2>1, <2>2, <2>3, <2>5 DEF ClassifyPath
  <2>. QED  BY <2>4, <2>5
<1>3. CASE f \notin TrackedFiles
  <2>1. f \in UntrackedFiles  BY <1>3 DEF ProbeFiles
  <2>2. (f \in old.listed <=> f \notin earlier /\ w # "absent") /\ (f \in new.listed <=> f \notin after /\ x # "absent")
    BY <1>3 DEF Shown
  <2>4. CASE f \in old.listed
    <3>1. was = w /\ is = x  BY <2>2, <2>4
    <3>. QED  BY <1>1, <2>2, <2>4, <3>1 DEF ClassifyPath
  <2>5. CASE f \notin old.listed
    <3>1. was = "absent"  BY <2>2, <2>5
    <3>2. is = IF f \in new.listed THEN x ELSE "absent"  BY <2>2, <2>5
    <3>. QED  BY <1>1, <2>1, <2>2, <2>5, <3>1, <3>2 DEF ClassifyPath
  <2>. QED  BY <2>4, <2>5
<1>. QED  BY <1>2, <1>3

-----------------------------------------------------------------------------
(* The verdicts.                                                           *)

\* What is found does not change from one place with a key to another.
LEMMA KeyShares ==
  ASSUME NEW i \in Located, NEW j \in Located, CaseExecutableProbeKey(i) = CaseExecutableProbeKey(j)
  PROVE  Lacks(i) <=> Lacks(j)
<1>1. Where(i).executable = Where(j).executable /\ Where(i).additions = Where(j).additions
  BY DEF CaseExecutableProbeKey
<1>. QED  BY <1>1 DEF Lacks, Finds, ReplicaEnvironment

LEMMA SlowStays ==
  ASSUME ProbeInv, ProbeNext
  PROVE  slow' \in BOOLEAN /\ (slow => slow')
<1>0. slow \in BOOLEAN  BY ProbeTypes
<1>1. CASE RunProbe
  <2>1. PICK r \in BOOLEAN : slow' = (slow \/ r)
    <3>1. PICK result \in {"zero", "nonzero", "timeout"} : slow' = (slow \/ result = "timeout")
      BY <1>1, Zenon DEF RunProbe
    <3>2. PICK r \in BOOLEAN : r = (result = "timeout")  BY Zenon
    <3>. QED  BY <3>1, <3>2, Zenon
  <2>. QED  BY <1>0, <2>1, Zenon
<1>2. CASE Aside  BY <1>0, <1>2, AsideIs
<1>3. CASE ~RunProbe /\ ~Aside
  <2>1. slow' = slow
    BY <1>3, ProbeSteps DEF BeginProbe, SnapshotFails, SnapshotLists, DirectorySnapshot, SnapshotSkipped,
       EnvironmentFails, RemoveProbeDirectory, Intrude, reportVars
  <2>. QED  BY <1>0, <2>1
<1>. QED  BY <1>1, <1>2, <1>3

LEMMA RightStays ==
  ASSUME ProbeInv, ProbeNext, NEW v, NEW i, Right(v, i)
  PROVE  RightOf(v, i, slow')
BY SlowStays DEF Right, RightOf

\* What a run comes to.
LEMMA RunIs ==
  ASSUME ProbeInv, RunProbe
  PROVE  /\ probe = "run" /\ probe' = "after" /\ running' = running /\ location' = location /\ validating' = validating
         /\ fate' \in Verdicts \cup {"none"}
         /\ fate' = "none" => running = "replica" /\ ~Finds(location, ReplicaEnvironment(location))
         /\ fate' \in Verdicts => RightOf(fate', location, slow')
<1>0. FateFits /\ slow \in BOOLEAN /\ running \in {"replica", "parent"}  BY ProbeTypes DEF ProbeInv
<1>1. PICK result \in {"zero", "nonzero", "timeout"} :
        /\ result = "zero" => Needs[Where(location).executable] \subseteq EnvironmentOf(running, location)
        /\ result = "nonzero" => ~(Needs[Where(location).executable] \subseteq EnvironmentOf(running, location))
        /\ fate' = OutcomeOf(running, result) /\ slow' = (slow \/ result = "timeout")
  BY Zenon DEF RunProbe
<1>2. /\ probe = "run" /\ probe' = "after" /\ running' = running /\ location' = location /\ validating' = validating
  BY DEF RunProbe
<1>3. result = "timeout" => slow'  BY <1>1, Zenon
<1>4. /\ result = "zero" => Finds(location, EnvironmentOf(running, location))
      /\ result = "nonzero" => ~Finds(location, EnvironmentOf(running, location))
      /\ fate' = OutcomeOf(running, result)
  <2>1. /\ result = "zero" => Needs[Where(location).executable] \subseteq EnvironmentOf(running, location)
        /\ result = "nonzero" => ~(Needs[Where(location).executable] \subseteq EnvironmentOf(running, location))
    BY <1>1, Zenon
  <2>2. fate' = OutcomeOf(running, result)  BY <1>1, Zenon
  <2>. QED  BY <2>1, <2>2 DEF Finds
<1>5. CASE running = "replica"
  <2>1. EnvironmentOf(running, location) = ReplicaEnvironment(location)  BY <1>5 DEF EnvironmentOf
  <2>2. CASE result = "zero"
    <3>1. fate' = "runs" /\ ~Lacks(location)  BY <1>4, <1>5, <2>1, <2>2 DEF OutcomeOf, Lacks
    <3>. QED  BY <1>2, <3>1 DEF RightOf, Verdicts
  <2>3. CASE result = "nonzero"
    <3>1. fate' = "none" /\ ~Finds(location, ReplicaEnvironment(location))  BY <1>4, <1>5, <2>1, <2>3 DEF OutcomeOf
    <3>. QED  BY <1>2, <1>5, <3>1 DEF Verdicts
  <2>4. CASE result = "timeout"
    <3>1. fate' = "undetermined"  BY <1>4, <1>5, <2>4 DEF OutcomeOf
    <3>. QED  BY <1>2, <1>3, <2>4, <3>1 DEF RightOf, Verdicts
  <2>. QED  BY <2>2, <2>3, <2>4
<1>6. CASE running = "parent"
  <2>1. EnvironmentOf(running, location) = ParentEnvironment  BY <1>6 DEF EnvironmentOf
  <2>2. ~Finds(location, ReplicaEnvironment(location))  BY <1>0, <1>2, <1>6 DEF FateFits
  <2>3. CASE result = "zero"
    <3>1. fate' = "parent-only" /\ Lacks(location)  BY <1>4, <1>6, <2>1, <2>2, <2>3 DEF OutcomeOf, Lacks
    <3>. QED  BY <1>2, <3>1 DEF RightOf, Verdicts
  <2>4. CASE result = "nonzero"
    <3>1. fate' = "undetermined" /\ ~Lacks(location)  BY <1>4, <1>6, <2>1, <2>4 DEF OutcomeOf, Lacks
    <3>. QED  BY <1>2, <3>1 DEF RightOf, Verdicts
  <2>5. CASE result = "timeout"
    <3>1. fate' = "undetermined"  BY <1>4, <1>6, <2>5 DEF OutcomeOf
    <3>. QED  BY <1>2, <1>3, <2>5, <3>1 DEF RightOf, Verdicts
  <2>. QED  BY <2>3, <2>4, <2>5
<1>. QED  BY <1>0, <1>5, <1>6

\* After a snapshot, or none, the first run, the second or the end.
LEMMA ResumeIs ==
  ASSUME ProbeInv, ProbeNext, SnapshotFails \/ DirectorySnapshot \/ SnapshotSkipped
  PROVE  /\ probe \in {"before", "after"} /\ UNCHANGED <<validating, location, fate, files, hidden, torn, notices, slow>>
         /\ probe' = IF probe = "before" \/ fate = "none" THEN "run" ELSE "removing"
         /\ running' = IF probe = "before" THEN "replica" ELSE "parent"
BY DEF SnapshotFails, DirectorySnapshot, SnapshotSkipped, Resume, directoryVars, reportVars

LEMMA FateKeeps ==
  ASSUME ProbeInv, ProbeNext
  PROVE  FateFits' /\ fate' \in Verdicts \cup {"none", "error"}
<1>0. FateFits /\ fate \in Verdicts \cup {"none", "error"}  BY ProbeTypes DEF ProbeInv
<1>00. "none" \notin Verdicts /\ "error" \notin Verdicts  BY DEF Verdicts
<1>1. CASE Aside
  <2>1. probe' = "none" /\ fate' = fate  BY <1>1, AsideIs
  <2>. QED  BY <1>0, <2>1 DEF FateFits
<1>2. CASE BeginProbe
  <2>1. /\ probe' = "before" /\ fate' = "none" /\ validating' = validating /\ location' = location
        /\ validating = "executables" /\ location \in Located /\ Judged(location)
    BY <1>2 DEF BeginProbe
  <2>. QED  BY <1>00, <2>1 DEF FateFits
<1>3. CASE SnapshotFails \/ DirectorySnapshot \/ SnapshotSkipped
  <2>1. /\ probe \in {"before", "after"} /\ UNCHANGED <<validating, location, fate>>
        /\ probe' = IF probe = "before" \/ fate = "none" THEN "run" ELSE "removing"
        /\ running' = IF probe = "before" THEN "replica" ELSE "parent"
    BY <1>3, ResumeIs
  <2>2. fate \in Verdicts => RightOf(fate, location, slow')
    BY <1>0, <2>1, RightStays DEF FateFits
  <2>. QED  BY <1>0, <1>00, <2>1, <2>2 DEF FateFits, Right
<1>4. CASE SnapshotLists \/ Intrude
  <2>1. UNCHANGED <<validating, location, probe, running, fate>>
    BY <1>4 DEF SnapshotLists, Intrude, probeSteps
  <2>2. probe # "none" /\ fate \in Verdicts => RightOf(fate, location, slow')
    BY <1>0, RightStays DEF FateFits
  <2>. QED  BY <1>0, <2>1, <2>2 DEF FateFits, Right
<1>5. CASE EnvironmentFails
  <2>1. probe = "run" /\ probe' = "removing" /\ fate' = "error" /\ validating' = validating /\ location' = location
    BY <1>5 DEF EnvironmentFails
  <2>. QED  BY <1>0, <1>00, <2>1 DEF FateFits
<1>6. CASE RunProbe
  <2>1. /\ probe = "run" /\ probe' = "after" /\ running' = running /\ location' = location /\ validating' = validating
        /\ fate' \in Verdicts \cup {"none"}
        /\ fate' = "none" => running = "replica" /\ ~Finds(location, ReplicaEnvironment(location))
        /\ fate' \in Verdicts => RightOf(fate', location, slow')
    BY <1>6, RunIs
  <2>. QED  BY <1>0, <1>00, <2>1 DEF FateFits, Right
<1>7. CASE RemoveProbeDirectory
  <2>1. probe' = "none" /\ fate' = "none"  BY <1>7 DEF RemoveProbeDirectory, EndProbe
  <2>. QED  BY <2>1 DEF FateFits
<1>. QED  BY <1>1, <1>2, <1>3, <1>4, <1>5, <1>6, <1>7, ProbeSteps

\* The end of a probe.
Concluded == /\ fate \in Verdicts
             /\ verdicts' = [k \in DOMAIN verdicts \cup {TheKey} |-> IF k = TheKey THEN fate ELSE verdicts[k]]
             /\ notices' = notices \cup ChangeWarnings \cup Verdict(fate)
             /\ location' = location + 1 /\ validating' = validating /\ leftover' = leftover
Broken == StopProbing /\ (leftover' = leftover \/ leftover' = TRUE)

LEMMA RemovalIs ==
  ASSUME ProbeInv, RemoveProbeDirectory
  PROVE  /\ Concluded \/ Broken
         /\ probe # "none" /\ probe' = "none" /\ UNCHANGED <<capable, slow, altered>>
         /\ unchecked' = FALSE /\ observed' = {}
         /\ location \in Located /\ Judged(location) /\ validating = "executables"
         /\ fate \in Verdicts => Right(fate, location)
<1>0. FateFits /\ fate \in Verdicts \cup {"none", "error"}  BY ProbeTypes DEF ProbeInv
<1>1. probe = "removing" /\ probe' = "none" /\ UNCHANGED <<capable, slow, altered>> /\ unchecked' = FALSE /\ observed' = {}
  BY DEF RemoveProbeDirectory, EndProbe
<1>2. fate # "none" /\ location \in Located /\ Judged(location) /\ validating = "executables"
      /\ (fate \in Verdicts => Right(fate, location))
  BY <1>0, <1>1 DEF FateFits
<1>3. \/ /\ fate # "error" /\ UNCHANGED leftover
         /\ verdicts' = [k \in DOMAIN verdicts \cup {TheKey} |-> IF k = TheKey THEN fate ELSE verdicts[k]]
         /\ notices' = notices \cup ChangeWarnings \cup Verdict(fate)
         /\ location' = location + 1 /\ UNCHANGED validating
      \/ Broken
  BY DEF RemoveProbeDirectory, Broken
<1>. QED  BY <1>0, <1>1, <1>2, <1>3 DEF Concluded

LEMMA VerdictsKeep ==
  ASSUME ProbeInv, ProbeNext
  PROVE  VerdictsFit' /\ DOMAIN verdicts' \subseteq Keys /\ \A k \in DOMAIN verdicts' : verdicts'[k] \in Verdicts
<1>0. VerdictsFit /\ DOMAIN verdicts \subseteq Keys /\ \A k \in DOMAIN verdicts : verdicts[k] \in Verdicts
  BY ProbeTypes DEF ProbeInv
<1>1. CASE verdicts' = verdicts
  <2>1. ASSUME NEW i \in Located, CaseExecutableProbeKey(i) \in DOMAIN verdicts
        PROVE  RightOf(verdicts[CaseExecutableProbeKey(i)], i, slow')
    <3>1. Right(verdicts[CaseExecutableProbeKey(i)], i)  BY <1>0, <2>1 DEF VerdictsFit
    <3>2. slow => slow'  BY SlowStays
    <3>. QED  BY <3>1, <3>2 DEF Right, RightOf
  <2>. QED  BY <1>0, <1>1, <2>1 DEF VerdictsFit, Right
<1>2. CASE RemoveProbeDirectory /\ Concluded
  <2>1. /\ fate \in Verdicts /\ location \in Located /\ Right(fate, location) /\ slow' = slow
        /\ verdicts' = [k \in DOMAIN verdicts \cup {TheKey} |-> IF k = TheKey THEN fate ELSE verdicts[k]]
    BY <1>2, RemovalIs DEF Concluded
  <2>2. TheKey \in Keys /\ TheKey = CaseExecutableProbeKey(location)  BY <2>1 DEF TheKey, Keys
  <2>. DEFINE key == TheKey
  <2>. HIDE DEF key
  <2>3. /\ DOMAIN verdicts' = DOMAIN verdicts \cup {key} /\ verdicts'[key] = fate
        /\ \A k \in DOMAIN verdicts \ {key} : verdicts'[k] = verdicts[k]
    BY <2>1 DEF key
  <2>4. ASSUME NEW i \in Located, CaseExecutableProbeKey(i) \in DOMAIN verdicts'
        PROVE  Right(verdicts'[CaseExecutableProbeKey(i)], i)
    <3>1. CASE CaseExecutableProbeKey(i) = key
      <4>1. Lacks(i) <=> Lacks(location)  BY <2>1, <2>2, <3>1, KeyShares DEF key
      <4>. QED  BY <2>1, <2>3, <3>1, <4>1 DEF Right, RightOf
    <3>2. CASE CaseExecutableProbeKey(i) # key  BY <1>0, <2>3, <2>4, <3>2 DEF VerdictsFit
    <3>. QED  BY <3>1, <3>2
  <2>5. VerdictsFit'  BY <2>1, <2>4 DEF VerdictsFit, Right
  <2>. QED  BY <1>0, <2>1, <2>2, <2>3, <2>5 DEF key
<1>3. verdicts' = verdicts \/ (RemoveProbeDirectory /\ Concluded)
  <2>1. CASE Aside  BY <2>1, AsideIs
  <2>2. CASE RemoveProbeDirectory  BY <2>2, RemovalIs DEF Broken, StopProbing
  <2>3. CASE ~Aside /\ ~RemoveProbeDirectory
    BY <2>3, ProbeSteps DEF BeginProbe, SnapshotFails, SnapshotLists, DirectorySnapshot, SnapshotSkipped,
       EnvironmentFails, RunProbe, Intrude, reportVars
  <2>. QED  BY <2>1, <2>2, <2>3
<1>. QED  BY <1>1, <1>2, <1>3

-----------------------------------------------------------------------------
(* The findings.                                                           *)

\* What a step does to the findings.
Quiet == UNCHANGED <<notices, location, validating, capable, leftover>>
Started == validating = "environment" /\ validating' = "executables" /\ UNCHANGED <<notices, location, capable, leftover>>
Ended == /\ location \notin Located /\ validating = "executables" /\ validating' = "capabilities"
         /\ UNCHANGED <<notices, location, capable, leftover>>
Halted(k) == /\ k \in {"prerequisite", "environment"} /\ notices' = notices \cup {[kind |-> k]}
             /\ validating # "done" /\ validating' = "capabilities" /\ location' = location /\ capable' = capable
             /\ (k = "prerequisite" \/ leftover' = leftover)
Probed(v) == /\ validating = "executables" /\ UNCHANGED <<validating, capable, leftover, altered>>
             /\ location \in Located /\ location' = location + 1
             /\ (v = "none" /\ ~Judged(location)) \/ (v \in Verdicts /\ Right(v, location))
             /\ \/ probe = "none" /\ notices' = notices \cup Verdict(v)
                \/ probe # "none" /\ notices' = notices \cup ChangeWarnings \cup Verdict(v)

LEMMA PassLocationIs ==
  ASSUME ProbeInv, PassLocation
  PROVE  \E v \in Verdicts \cup {"none"} : Probed(v)
<1>1. /\ validating = "executables" /\ UNCHANGED <<validating, capable, leftover, altered>> /\ probe = "none"
      /\ location \in Located /\ location' = location + 1
  BY DEF PassLocation, snapshotVars
<1>2. CASE ~Judged(location) /\ UNCHANGED notices
  <2>1. notices' = notices \cup Verdict("none")  BY <1>2 DEF Verdict
  <2>2. Probed("none")  BY <1>1, <1>2, <2>1 DEF Probed
  <2>. QED  BY <2>2
<1>3. CASE TheKey \in DOMAIN verdicts /\ notices' = notices \cup Verdict(verdicts[TheKey])
  <2>1. verdicts[TheKey] \in Verdicts  BY <1>3, ProbeTypes
  <2>2. Right(verdicts[TheKey], location)  BY <1>1, <1>3 DEF ProbeInv, VerdictsFit, TheKey
  <2>3. Probed(verdicts[TheKey])  BY <1>1, <1>3, <2>1, <2>2 DEF Probed
  <2>. QED  BY <2>1, <2>3
<1>. QED  BY <1>2, <1>3 DEF PassLocation

LEMMA FindingsAre ==
  ASSUME ProbeInv, ProbeNext
  PROVE  \/ Quiet \/ Started \/ Ended \/ ProbeAgents
         \/ \E k \in {"prerequisite", "environment"} : Halted(k)
         \/ \E v \in Verdicts \cup {"none"} : Probed(v)
<1>1. CASE CollectEnvironmentFindings
  <2>1. Started \/ Halted("environment")  BY <1>1 DEF CollectEnvironmentFindings, Started, Halted
  <2>. QED  BY <2>1
<1>2. CASE NoProbeDirectory
  <2>1. Halted("prerequisite")  BY <1>2 DEF NoProbeDirectory, Halted, StopProbing
  <2>. QED  BY <2>1
<1>3. CASE PassLocation  BY <1>3, PassLocationIs
<1>4. CASE EndLocations  BY <1>4 DEF EndLocations, Ended, reportVars
<1>5. CASE RemoveProbeDirectory
  <2>1. CASE Concluded
    <3>1. fate \in Verdicts  BY <2>1 DEF Concluded
    <3>2. Probed(fate)  BY <1>5, <2>1, RemovalIs DEF Concluded, Probed
    <3>. QED  BY <3>1, <3>2
  <2>2. CASE Broken
    <3>1. Halted("prerequisite")  BY <1>5, <2>2, RemovalIs DEF Broken, StopProbing, Halted
    <3>. QED  BY <3>1
  <2>. QED  BY <1>5, <2>1, <2>2, RemovalIs
<1>6. CASE ~Aside /\ ~RemoveProbeDirectory
  BY <1>6, ProbeSteps DEF BeginProbe, SnapshotFails, SnapshotLists, DirectorySnapshot, SnapshotSkipped,
     EnvironmentFails, RunProbe, Intrude, reportVars, probeSteps, Quiet
<1>. QED  BY <1>1, <1>2, <1>3, <1>4, <1>5, <1>6 DEF Aside

\* A finding names a location only as it is passed.
LEMMA NoticesGrow ==
  ASSUME ProbeInv, ProbeNext
  PROVE  /\ notices \subseteq notices'
         /\ \A i \in Located : Wanting(i)' => Wanting(i) \/ (i = location /\ Probed("parent-only"))
         /\ \A n \in notices' : n.kind = "changed" =>
              n \in notices \/ (probe # "none" /\ n \in ChangeWarnings)
<1>1. CASE Quiet \/ Started \/ Ended  BY <1>1 DEF Quiet, Started, Ended, Wanting
<1>2. CASE \E k \in {"prerequisite", "environment"} : Halted(k)  BY <1>2 DEF Halted, Wanting
<1>3. CASE ProbeAgents
  <2>1. PICK failing : notices' = notices \cup {[kind |-> "agent", name |-> a] : a \in failing}
    BY <1>3 DEF ProbeAgents
  <2>2. \A n \in notices' : n \in notices \/ n.kind = "agent"  BY <2>1
  <2>3. \A i : [kind |-> "parent-only", at |-> i].kind = "parent-only"  OBVIOUS
  <2>. QED  BY <2>1, <2>2, <2>3 DEF Wanting
<1>4. CASE \E v \in Verdicts \cup {"none"} : Probed(v)
  <2>1. PICK v \in Verdicts \cup {"none"} : Probed(v)  BY <1>4
  <2>2. \A n \in Verdict(v) : v = "parent-only" /\ n = [kind |-> "parent-only", at |-> location]  BY DEF Verdict
  <2>3. \A n \in ChangeWarnings : n.kind \in {"changed", "unchecked"}  BY DEF ChangeWarnings
  <2>4. /\ notices \subseteq notices'
        /\ \A n \in notices' : n \in notices \/ n \in Verdict(v) \/ (probe # "none" /\ n \in ChangeWarnings)
    BY <2>1 DEF Probed
  <2>5. \A n \in Verdict(v) : n.kind = "parent-only" /\ n.at = location  BY <2>2
  <2>6. ASSUME NEW i \in Located, Wanting(i)'
        PROVE  Wanting(i) \/ (i = location /\ Probed("parent-only"))
    <3>. DEFINE w == [kind |-> "parent-only", at |-> i]
    <3>1. w \in notices' /\ w.kind = "parent-only" /\ w.at = i  BY <2>6 DEF Wanting
    <3>2. w \in notices => Wanting(i)  BY DEF Wanting
    <3>. HIDE DEF w
    <3>3. w \in notices \/ w \in Verdict(v)  BY <2>3, <2>4, <3>1
    <3>4. w \in Verdict(v) => i = location /\ v = "parent-only"  BY <2>2, <2>5, <3>1
    <3>. QED  BY <2>1, <3>2, <3>3, <3>4
  <2>7. \A n \in notices' : n.kind = "changed" => n \in notices \/ (probe # "none" /\ n \in ChangeWarnings)
    BY <2>4, <2>5
  <2>. QED  BY <2>4, <2>6, <2>7
<1>. QED  BY <1>1, <1>2, <1>3, <1>4, FindingsAre

LEMMA FindingsKeep ==
  ASSUME ProbeInv, ProbeNext
  PROVE  FindingsFit'
<1>0. FindingsFit /\ location \in Nat  BY ProbeTypes DEF ProbeInv
<1>1. \A i \in Located : Wanting(i)' => Lacks(i)
  <2>1. Probed("parent-only") => Lacks(location)
    <3>1. "parent-only" # "none"  OBVIOUS
    <3>. QED  BY <3>1 DEF Probed, Right, RightOf
  <2>. QED  BY <1>0, <2>1, NoticesGrow DEF FindingsFit
<1>2. \A i \in Located : i < location' /\ Judged(i) /\ Lacks(i) => slow' \/ Wanting(i)'
  <2>1. TAKE i \in Located
  <2>2. HAVE i < location' /\ Judged(i) /\ Lacks(i)
  <2>3. (slow => slow') /\ (Wanting(i) => Wanting(i)')  BY SlowStays, NoticesGrow DEF Wanting
  <2>4. CASE i < location
    <3>1. slow \/ Wanting(i)  BY <1>0, <2>2, <2>4 DEF FindingsFit
    <3>. QED  BY <2>3, <3>1
  <2>5. CASE ~(i < location)
    <3>1. location' # location  BY <2>2, <2>5
    <3>2. PICK v \in Verdicts \cup {"none"} : Probed(v)
      BY <3>1, FindingsAre DEF Quiet, Started, Ended, ProbeAgents, Halted
    <3>3. i = location
      <4>1. i \in Nat  BY LocatedIs
      <4>. QED  BY <1>0, <2>2, <2>5, <3>2, <4>1 DEF Probed
    <3>4. v \in Verdicts /\ Right(v, location)  BY <2>2, <3>2, <3>3 DEF Probed
    <3>5. CASE v = "parent-only"
      <4>1. [kind |-> "parent-only", at |-> location] \in Verdict(v)  BY <3>5 DEF Verdict
      <4>2. Verdict(v) \subseteq notices'  BY <3>2 DEF Probed
      <4>. QED  BY <3>3, <4>1, <4>2 DEF Wanting
    <3>6. CASE v # "parent-only"
      <4>1. slow \/ ~Lacks(location)  BY <3>4, <3>6 DEF Right, RightOf
      <4>. QED  BY <2>2, <2>3, <3>3, <4>1
    <3>. QED  BY <3>5, <3>6
  <2>. QED  BY <2>4, <2>5
<1>3. validating' \in {"capabilities", "done"} => Stopped' \/ location' \notin Located
  <2>1. Stopped => Stopped'  BY NoticesGrow DEF Stopped
  <2>2. CASE Quiet  BY <1>0, <2>1, <2>2 DEF Quiet, FindingsFit
  <2>3. CASE Started  BY <2>3 DEF Started
  <2>4. CASE Ended  BY <2>4 DEF Ended
  <2>5. CASE ProbeAgents  BY <1>0, <2>1, <2>5 DEF ProbeAgents, FindingsFit
  <2>6. CASE \E k \in {"prerequisite", "environment"} : Halted(k)  BY <2>6 DEF Halted, Stopped
  <2>7. CASE \E v \in Verdicts \cup {"none"} : Probed(v)  BY <2>7 DEF Probed
  <2>. QED  BY <2>2, <2>3, <2>4, <2>5, <2>6, <2>7, FindingsAre
<1>4. /\ validating' # "done" => capable' = {}
      /\ \A i \in Located : Wanting(i)' => Where(i).agent \notin capable'
  <2>1. CASE ProbeAgents
    <3>1. validating' = "done" /\ capable' = AgentsAt \ ReportedAgents  BY <2>1 DEF ProbeAgents
    <3>2. ASSUME NEW i \in Located, Wanting(i)'
          PROVE  Where(i).agent \in ReportedAgents
      <4>1. ~Probed("parent-only")  BY <2>1 DEF ProbeAgents, Probed
      <4>2. Wanting(i)  BY <3>2, <4>1, NoticesGrow
      <4>. QED  BY <4>2 DEF Wanting, ReportedAgents
    <3>. QED  BY <3>1, <3>2
  <2>2. CASE Quiet
    <3>1. \A i \in Located : Wanting(i)' => Wanting(i)  BY <2>2 DEF Quiet, Wanting
    <3>. QED  BY <1>0, <2>2, <3>1 DEF Quiet, FindingsFit
  <2>3. CASE Ended
    <3>1. \A i \in Located : Wanting(i)' => Wanting(i)  BY <2>3 DEF Ended, Wanting
    <3>. QED  BY <1>0, <2>3, <3>1 DEF Ended, FindingsFit
  <2>4. CASE Started  BY <1>0, <2>4 DEF Started, FindingsFit
  <2>5. CASE \E k \in {"prerequisite", "environment"} : Halted(k)
    <3>1. capable' = capable /\ validating # "done" /\ validating' = "capabilities" /\ \A i \in Located : Wanting(i)' => Wanting(i)
      BY <2>5 DEF Halted, Wanting
    <3>. QED  BY <1>0, <3>1 DEF FindingsFit
  <2>6. CASE \E v \in Verdicts \cup {"none"} : Probed(v)  BY <1>0, <2>6 DEF Probed, FindingsFit
  <2>. QED  BY <2>1, <2>2, <2>3, <2>4, <2>5, <2>6, FindingsAre
<1>5. leftover' => [kind |-> "prerequisite"] \in notices'
  <2>1. CASE leftover' = leftover  BY <1>0, <2>1, NoticesGrow DEF FindingsFit
  <2>2. CASE leftover' # leftover
    <3>1. Halted("prerequisite")
      BY <2>2, FindingsAre DEF Quiet, Started, Ended, ProbeAgents, Probed, Halted
    <3>. QED  BY <3>1 DEF Halted
  <2>. QED  BY <2>1, <2>2
<1>. QED  BY <1>1, <1>2, <1>3, <1>4, <1>5 DEF FindingsFit, Lacks, Finds, Wanting

-----------------------------------------------------------------------------
(* What is told of the operator's directory.                               *)

\* The history of what the runs changed grows when a run is over.
LEMMA AlteredGrows ==
  ASSUME ProbeInv, ProbeNext
  PROVE  \/ altered' = altered
         \/ /\ SnapshotFails \/ SnapshotSkipped
            /\ probe = "after" /\ Where(location).inDirectory /\ altered' = altered \cup {Happened(FALSE)}
         \/ DirectorySnapshot /\ probe = "after" /\ altered' = altered \cup {Happened(TRUE)}
<1>1. CASE Aside  BY <1>1, AsideIs
<1>2. CASE SnapshotFails \/ SnapshotSkipped  BY <1>2 DEF SnapshotFails, SnapshotSkipped, Unobserved
<1>3. CASE DirectorySnapshot
  <2>1. probe \in {"before", "after"}  BY <1>3 DEF DirectorySnapshot
  <2>2. probe = "before" => altered' = altered  BY <1>3 DEF DirectorySnapshot
  <2>3. probe # "before" => altered' = altered \cup {Happened(TRUE)}  BY <1>3 DEF DirectorySnapshot
  <2>. QED  BY <1>3, <2>1, <2>2, <2>3
<1>4. CASE BeginProbe \/ SnapshotLists \/ EnvironmentFails \/ RunProbe \/ RemoveProbeDirectory \/ Intrude
  BY <1>4 DEF BeginProbe, SnapshotLists, EnvironmentFails, RunProbe, RemoveProbeDirectory, Intrude, snapshotVars
<1>. QED  BY <1>1, <1>2, <1>3, <1>4, ProbeSteps

\* Two snapshots of a run agree with what happened to every file that stayed as it was while
\* they were taken.
LEMMA RunIsCompared ==
  ASSUME ProbeInv, DirectorySnapshot, probe = "after"
  PROVE  \E o : observed' = observed \cup {o} /\ Agree(o, Happened(TRUE)) /\ Happened(TRUE).at = location
<1>. DEFINE states == StatesOf(listing, previous.listed)
            new == [listed |-> listing, states |-> states]
            o == [run |-> running, change |-> [f \in ProbeFiles |-> ClassifyPath(previous, new, f)]]
<1>1. observed' = observed \cup {o} /\ Watching  BY DEF DirectorySnapshot
<1>2. /\ listing \subseteq ProbeFiles
      /\ \A f \in listing \cup previous.listed : states[f] = files[f]
      /\ DOMAIN states = listing \cup previous.listed
      /\ \A f \in ProbeFiles \ torn : f \in listing <=> Shown(f, files[f], hidden)
  BY SnapshotIs
<1>3. /\ truth.files \in [ProbeFiles -> FileStates] /\ truth.hidden \subseteq UntrackedFiles
      /\ \A f \in ProbeFiles \ torn :
           /\ f \in previous.listed <=> Shown(f, truth.files[f], truth.hidden)
           /\ f \in previous.listed => f \in DOMAIN previous.states /\ previous.states[f] = truth.files[f]
  BY <1>1 DEF ProbeInv, SnapshotFits
<1>4. files \in [ProbeFiles -> FileStates] /\ hidden \subseteq UntrackedFiles  BY ProbeTypes
<1>. HIDE DEF states
<1>5. new.listed = listing /\ new.states = states  OBVIOUS
<1>. HIDE DEF new
<1>6. ASSUME NEW f \in ProbeFiles \ torn
      PROVE  ClassifyPath(previous, new, f) = Difference(f)
  <2>. DEFINE w == truth.files[f]
              x == files[f]
  <2>1. f \in ProbeFiles /\ w \in FileStates /\ x \in FileStates  BY <1>3, <1>4
  <2>2. (f \in previous.listed <=> Shown(f, w, truth.hidden)) /\ (f \in previous.listed => previous.states[f] = w)
    BY <1>3
  <2>3. f \in new.listed <=> Shown(f, x, hidden)  BY <1>2, <1>5
  <2>4. f \in DOMAIN new.states <=> f \in previous.listed \cup new.listed  BY <1>2, <1>5
  <2>5. f \in previous.listed \cup new.listed => f \in DOMAIN new.states /\ new.states[f] = x
    BY <1>2, <1>5
  <2>6. w = truth.files[f] /\ x = files[f] /\ truth.hidden \in SUBSET UntrackedFiles /\ hidden \in SUBSET UntrackedFiles
    BY <1>3, <1>4
  <2>. HIDE DEF w, x
  <2>. QED  BY <2>1, <2>2, <2>3, <2>4, <2>5, <2>6, ChangeIs
<1>7. o.run = running /\ \A f \in ProbeFiles : o.change[f] = ClassifyPath(previous, new, f)  OBVIOUS
<1>. HIDE DEF o
<1>. DEFINE a == Happened(TRUE)
<1>8. a.at = location /\ a.run = running /\ a.known /\ a.torn = torn /\ \A f \in ProbeFiles : a.change[f] = Difference(f)
  BY DEF Happened
<1>. HIDE DEF a
<1>9. Agree(o, a)  BY <1>6, <1>7, <1>8 DEF Agree
<1>. QED  BY <1>1, <1>8, <1>9 DEF a

LEMMA UnknownIs ==
  Happened(FALSE).at = location /\ ~Happened(FALSE).known
BY DEF Happened

LEMMA ObservedKeep ==
  ASSUME ProbeInv, ProbeNext
  PROVE  ObservedFits'
<1>0. ObservedFits /\ location \in Nat  BY ProbeTypes DEF ProbeInv
<1>1. CASE Aside
  <2>1. probe = "none" /\ probe' = "none" /\ observed' = observed /\ altered' = altered  BY <1>1, AsideIs
  <2>2. /\ location' = location \/ location' = location + 1
        /\ validating' \in {"environment", "executables"} => validating \in {"environment", "executables"}
    BY <1>1 DEF Aside, CollectEnvironmentFindings, NoProbeDirectory, PassLocation, EndLocations, ProbeAgents, StopProbing
  <2>. QED  BY <1>0, <2>1, <2>2 DEF ObservedFits
<1>2. CASE BeginProbe
  <2>1. /\ probe = "none" /\ probe' = "before" /\ observed' = observed /\ altered' = altered
        /\ validating = "executables" /\ location' = location
    BY <1>2 DEF BeginProbe, snapshotVars
  <2>2. \A a \in altered : a.at \in Nat /\ a.at < location /\ a.at # location
    BY <1>0, <2>1 DEF ObservedFits
  <2>. QED  BY <1>0, <2>1, <2>2 DEF ObservedFits
<1>3. CASE RemoveProbeDirectory
  <2>1. probe' = "none" /\ observed' = {} /\ altered' = altered  BY <1>3, RemovalIs
  <2>2. location' = location + 1 \/ (location' = location /\ validating' = "capabilities")
    BY <1>3, RemovalIs DEF Concluded, Broken, StopProbing
  <2>. QED  BY <1>0, <2>1, <2>2 DEF ObservedFits
<1>4. CASE SnapshotFails \/ SnapshotSkipped
  <2>1. /\ probe \in {"before", "after"} /\ probe' # "none" /\ location' = location
        /\ Where(location).inDirectory => unchecked'
    <3>1. probe \in {"before", "after"} /\ probe' # "none" /\ location' = location  BY <1>4, ResumeIs
    <3>2. CASE SnapshotFails  BY <3>1, <3>2, Zenon DEF SnapshotFails
    <3>3. CASE SnapshotSkipped
      <4>1. unchecked' = unchecked /\ ~Watching  BY <3>3 DEF SnapshotSkipped
      <4>2. Where(location).inDirectory => unchecked  BY <4>1, Zenon DEF Watching
      <4>. QED  BY <3>1, <4>1, <4>2
    <3>. QED  BY <1>4, <3>2, <3>3
  <2>2. observed' = observed /\ (unchecked => unchecked')
    BY <1>4 DEF SnapshotFails, SnapshotSkipped
  <2>3. CASE altered' = altered  BY <1>0, <2>1, <2>2, <2>3 DEF ObservedFits
  <2>4. CASE Where(location).inDirectory /\ altered' = altered \cup {Happened(FALSE)}
    <3>. DEFINE u == Happened(FALSE)
    <3>1. u.at = location /\ ~u.known /\ altered' = altered \cup {u}  BY <2>4, UnknownIs
    <3>. HIDE DEF u
    <3>2. probe # "none"  BY <2>1
    <3>3. \A o \in observed' : \E a \in altered' : a.at = location' /\ Agree(o, a)
      BY <1>0, <2>1, <2>2, <3>1 DEF ObservedFits
    <3>4. \A a \in altered' : a.at \in Nat /\ a.at <= location'
      BY <1>0, <2>1, <3>1 DEF ObservedFits
    <3>5. \A a \in altered' : a.at = location' => IF a.known THEN \E o \in observed' : Agree(o, a) ELSE unchecked'
      BY <1>0, <2>1, <2>2, <2>4, <3>1, <3>2 DEF ObservedFits
    <3>. QED  BY <2>1, <3>3, <3>4, <3>5 DEF ObservedFits, Agree
  <2>5. \/ altered' = altered
        \/ Where(location).inDirectory /\ altered' = altered \cup {Happened(FALSE)}
    BY <1>4 DEF SnapshotFails, SnapshotSkipped, Unobserved
  <2>. QED  BY <2>3, <2>4, <2>5
<1>5. CASE DirectorySnapshot
  <2>1. probe \in {"before", "after"} /\ probe' # "none" /\ location' = location /\ unchecked' = unchecked
    BY <1>5, ResumeIs, SnapshotIs
  <2>2. CASE probe = "before"
    <3>1. observed' = observed /\ altered' = altered  BY <1>5, <2>2 DEF DirectorySnapshot
    <3>. QED  BY <1>0, <2>1, <2>2, <3>1 DEF ObservedFits
  <2>3. CASE probe = "after"
    <3>1. PICK o : observed' = observed \cup {o} /\ Agree(o, Happened(TRUE)) /\ Happened(TRUE).at = location
      BY <1>5, <2>3, RunIsCompared
    <3>. DEFINE u == Happened(TRUE)
    <3>2. u.at = location /\ Agree(o, u) /\ altered' = altered \cup {u}
      BY <1>5, <2>3, <3>1 DEF DirectorySnapshot
    <3>. HIDE DEF u
    <3>3. \A p \in observed' : \E a \in altered' : a.at = location' /\ Agree(p, a)
      BY <1>0, <2>1, <3>1, <3>2 DEF ObservedFits
    <3>4. \A a \in altered' : a.at \in Nat /\ a.at <= location'
      BY <1>0, <2>1, <3>2 DEF ObservedFits
    <3>5. \A a \in altered' : a.at = location' => IF a.known THEN \E p \in observed' : Agree(p, a) ELSE unchecked'
      <4>1. u.known  BY <3>2 DEF Agree
      <4>. QED  BY <1>0, <2>1, <2>3, <3>1, <3>2, <4>1 DEF ObservedFits
    <3>. QED  BY <2>1, <3>3, <3>4, <3>5 DEF ObservedFits, Agree
  <2>. QED  BY <2>1, <2>2, <2>3
<1>6. CASE SnapshotLists \/ EnvironmentFails \/ RunProbe \/ Intrude
  <2>1. UNCHANGED <<location, observed, altered, unchecked>> /\ probe' # "none"
    BY <1>6 DEF SnapshotLists, EnvironmentFails, RunProbe, Intrude, probeSteps, snapshotVars
  <2>2. probe # "none"
    BY <1>6 DEF SnapshotLists, EnvironmentFails, RunProbe, Intrude
  <2>. QED  BY <1>0, <2>1, <2>2 DEF ObservedFits
<1>. QED  BY <1>1, <1>2, <1>3, <1>4, <1>5, <1>6, ProbeSteps

\* What is told of the runs is what they changed, and all of it.
LEMMA ToldKeep ==
  ASSUME ProbeInv, ProbeNext
  PROVE  ToldFits'
<1>0. ToldFits /\ ObservedFits /\ location \in Nat  BY ProbeTypes DEF ProbeInv
<1>1. notices \subseteq notices' /\ altered \subseteq altered'  BY NoticesGrow, AlteredGrows
<1>2. \A n \in notices' : n.kind = "changed" => \E a \in altered' : a.at = n.at /\ Agree(n, a)
  <2>1. TAKE n \in notices'
  <2>2. HAVE n.kind = "changed"
  <2>3. CASE n \in notices  BY <1>0, <1>1, <2>2, <2>3 DEF ToldFits
  <2>4. CASE probe # "none" /\ n \in ChangeWarnings
    <3>1. PICK o \in observed : n = [kind |-> "changed", at |-> location, run |-> o.run, change |-> o.change]
      BY <2>2, <2>4 DEF ChangeWarnings
    <3>2. PICK a \in altered : a.at = location /\ Agree(o, a)  BY <1>0 DEF ObservedFits
    <3>3. n.at = location /\ n.run = o.run /\ n.change = o.change  BY <3>1
    <3>. QED  BY <1>1, <3>2, <3>3 DEF Agree
  <2>. QED  BY <2>2, <2>3, <2>4, NoticesGrow
<1>. DEFINE Told(a, told) ==
              IF a.known
              THEN \/ \A f \in ProbeFiles \ a.torn : a.change[f] = "none"
                   \/ \E n \in told : n.kind = "changed" /\ n.at = a.at /\ n.run = a.run
              ELSE [kind |-> "unchecked", at |-> a.at] \in told
<1>3. \A a \in altered' : a.at < location' => Told(a, notices')
  <2>1. TAKE a \in altered'
  <2>2. HAVE a.at < location'
  <2>3. CASE location' = location
    <3>1. a \in altered
      <4>1. Happened(TRUE).at = location /\ Happened(FALSE).at = location  BY DEF Happened
      <4>2. a.at # location  BY <1>0, <2>2, <2>3
      <4>. QED  BY <4>1, <4>2, AlteredGrows
    <3>2. Told(a, notices)  BY <1>0, <2>2, <2>3, <3>1 DEF ToldFits
    <3>. QED  BY <1>1, <3>2
  <2>4. CASE location' # location
    <3>1. PICK v \in Verdicts \cup {"none"} : Probed(v)
      BY <2>4, FindingsAre DEF Quiet, Started, Ended, ProbeAgents, Halted
    <3>2. a \in altered /\ location' = location + 1 /\ validating = "executables"  BY <3>1 DEF Probed
    <3>3. CASE a.at < location
      <4>1. Told(a, notices)  BY <1>0, <3>2, <3>3 DEF ToldFits
      <4>. QED  BY <1>1, <4>1
    <3>4. CASE ~(a.at < location)
      <4>1. a.at = location  BY <1>0, <2>2, <3>2, <3>4 DEF ObservedFits
      <4>2. probe # "none"  BY <1>0, <3>2, <3>4 DEF ObservedFits
      <4>3. ChangeWarnings \subseteq notices'  BY <3>1, <4>2 DEF Probed
      <4>4. IF a.known THEN \E o \in observed : Agree(o, a) ELSE unchecked
        BY <1>0, <3>2, <4>1, <4>2 DEF ObservedFits
      <4>5. CASE a.known
        <5>1. PICK o \in observed : Agree(o, a)  BY <4>4, <4>5
        <5>2. CASE \E f \in ProbeFiles : o.change[f] # "none"
          <6>. DEFINE n == [kind |-> "changed", at |-> location, run |-> o.run, change |-> o.change]
          <6>1. n \in ChangeWarnings  BY <5>2 DEF ChangeWarnings
          <6>2. n.kind = "changed" /\ n.at = a.at /\ n.run = a.run  BY <4>1, <5>1 DEF Agree
          <6>. HIDE DEF n
          <6>. QED  BY <4>3, <4>5, <6>1, <6>2
        <5>3. CASE ~\E f \in ProbeFiles : o.change[f] # "none"
          <6>1. \A f \in ProbeFiles \ a.torn : a.change[f] = "none"  BY <5>1, <5>3 DEF Agree
          <6>. QED  BY <4>5, <6>1
        <5>. QED  BY <5>2, <5>3
      <4>6. CASE ~a.known
        <5>1. [kind |-> "unchecked", at |-> location] \in ChangeWarnings  BY <4>4, <4>6 DEF ChangeWarnings
        <5>. QED  BY <4>1, <4>3, <4>6, <5>1
      <4>. QED  BY <4>5, <4>6
    <3>. QED  BY <3>3, <3>4
  <2>. QED  BY <2>3, <2>4
<1>. QED  BY <1>2, <1>3 DEF ToldFits, Agree

-----------------------------------------------------------------------------
(* The invariant.                                                          *)

LEMMA FilesKeep ==
  ASSUME ProbeInv, ProbeNext
  PROVE  /\ files' \in [ProbeFiles -> FileStates] /\ hidden' \subseteq UntrackedFiles
         /\ writings' \in 0..MaxWrites /\ intrusions' \in 0..MaxIntrusions /\ torn' \subseteq ProbeFiles
<1>0. /\ files \in [ProbeFiles -> FileStates] /\ hidden \subseteq UntrackedFiles
      /\ writings \in 0..MaxWrites /\ intrusions \in 0..MaxIntrusions /\ torn \subseteq ProbeFiles
      /\ MaxWrites \in Nat /\ MaxIntrusions \in Nat
  BY ProbeTypes, ProbeAssumption DEF ProbeAssumption
<1>1. CASE Aside  BY <1>0, <1>1, AsideIs
<1>2. CASE RunProbe
  <2>1. UNCHANGED <<intrusions, torn>> /\ RunWrites  BY <1>2 DEF RunProbe
  <2>2. CASE UNCHANGED <<files, hidden, writings>>  BY <1>0, <2>1, <2>2
  <2>3. CASE ~UNCHANGED <<files, hidden, writings>>
    <3>1. /\ writings < MaxWrites /\ writings' = writings + 1
          /\ \/ \E f \in ProbeFiles, x \in FileStates : files' = [files EXCEPT ![f] = x] /\ UNCHANGED hidden
             \/ hidden' \in SUBSET UntrackedFiles /\ UNCHANGED files
      BY <2>1, <2>3 DEF RunWrites
    <3>2. files' \in [ProbeFiles -> FileStates] /\ hidden' \subseteq UntrackedFiles  BY <1>0, <3>1
    <3>. QED  BY <1>0, <2>1, <3>1, <3>2
  <2>. QED  BY <2>2, <2>3
<1>3. CASE Intrude
  <2>1. PICK f \in ProbeFiles, x \in FileStates :
          files' = [files EXCEPT ![f] = x] /\ torn' = IF listing = {"unread"} THEN torn ELSE torn \cup {f}
    BY <1>3 DEF Intrude
  <2>2. UNCHANGED <<hidden, writings>> /\ intrusions < MaxIntrusions /\ intrusions' = intrusions + 1
    BY <1>3 DEF Intrude
  <2>3. files' \in [ProbeFiles -> FileStates] /\ torn' \subseteq ProbeFiles  BY <1>0, <2>1
  <2>. QED  BY <1>0, <2>2, <2>3
<1>4. CASE ~Aside /\ ~RunProbe /\ ~Intrude
  <2>1. UNCHANGED <<files, hidden, writings, intrusions>> /\ (torn' = torn \/ torn' = {})
    BY <1>4, ProbeSteps DEF BeginProbe, SnapshotFails, SnapshotLists, DirectorySnapshot, SnapshotSkipped,
       EnvironmentFails, RemoveProbeDirectory, EndProbe, directoryVars
  <2>. QED  BY <1>0, <2>1
<1>. QED  BY <1>1, <1>2, <1>3, <1>4

LEMMA ProbeTypesKeep ==
  ASSUME ProbeInv, ProbeNext
  PROVE  ProbeTypeOK'
<1>0. /\ location \in Nat \ {0} /\ location <= Len(CaseExecutableLocations) + 1
      /\ validating \in {"environment", "executables", "capabilities", "done"}
      /\ listing \subseteq ProbeFiles \cup {"unread"} /\ capable \subseteq AgentsAt
      /\ probe \in {"none", "before", "run", "after", "removing"} /\ running \in {"replica", "parent"}
  BY ProbeTypes
<1>1. location' \in Nat \ {0} /\ location' <= Len(CaseExecutableLocations) + 1
  <2>1. CASE location' = location  BY <1>0, <2>1
  <2>2. CASE location' # location
    <3>1. PICK v \in Verdicts \cup {"none"} : Probed(v)
      BY <2>2, FindingsAre DEF Quiet, Started, Ended, ProbeAgents, Halted
    <3>2. location \in Located /\ location' = location + 1  BY <3>1 DEF Probed
    <3>. QED  BY <1>0, <3>2, LocatedIs
  <2>. QED  BY <2>1, <2>2
<1>2. validating' \in {"environment", "executables", "capabilities", "done"}
  BY <1>0, FindingsAre DEF Quiet, Started, Ended, ProbeAgents, Halted, Probed
<1>3. probe' \in {"none", "before", "run", "after", "removing"} /\ running' \in {"replica", "parent"}
  <2>1. CASE Aside  BY <1>0, <2>1, AsideIs
  <2>2. CASE ~Aside
    BY <1>0, <2>2, ProbeSteps DEF BeginProbe, SnapshotFails, SnapshotLists, DirectorySnapshot, SnapshotSkipped,
       EnvironmentFails, RunProbe, RemoveProbeDirectory, EndProbe, Intrude, Resume, probeSteps
  <2>. QED  BY <2>1, <2>2
<1>4. listing' \subseteq ProbeFiles \cup {"unread"}
  <2>1. CASE Aside  BY <1>0, <2>1, AsideIs
  <2>2. CASE SnapshotLists
    <3>1. listing' = GitStatus  BY <2>2 DEF SnapshotLists
    <3>. QED  BY <3>1, ShownIs
  <2>3. CASE ~Aside /\ ~SnapshotLists
    <3>1. listing' = listing \/ listing' = {"unread"}
      BY <2>3, ProbeSteps DEF BeginProbe, SnapshotFails, DirectorySnapshot, SnapshotSkipped,
         EnvironmentFails, RunProbe, RemoveProbeDirectory, EndProbe, Intrude, snapshotVars
    <3>. QED  BY <1>0, <3>1
  <2>. QED  BY <2>1, <2>2, <2>3
<1>5. unchecked' \in BOOLEAN
  <2>0. unchecked \in BOOLEAN  BY ProbeTypes
  <2>1. CASE Aside
    <3>1. unchecked' = unchecked  BY <2>1, AsideIs
    <3>. QED  BY <2>0, <3>1
  <2>2. CASE ~Aside
    <3>1. unchecked' = unchecked \/ unchecked' = TRUE \/ unchecked' = FALSE
      BY <2>2, ProbeSteps, Zenon DEF BeginProbe, SnapshotFails, SnapshotLists, DirectorySnapshot, SnapshotSkipped,
         EnvironmentFails, RunProbe, RemoveProbeDirectory, EndProbe, Intrude, snapshotVars
    <3>. QED  BY <2>0, <3>1, Zenon
  <2>. QED  BY <2>1, <2>2
<1>6. leftover' \in BOOLEAN
  <2>0. leftover \in BOOLEAN  BY ProbeTypes
  <2>1. CASE Aside
    <3>1. leftover' = leftover  BY <2>1, AsideIs
    <3>. QED  BY <2>0, <3>1
  <2>2. CASE ~Aside
    <3>1. leftover' = leftover \/ leftover' = TRUE
      BY <2>2, ProbeSteps, Zenon DEF BeginProbe, SnapshotFails, SnapshotLists, DirectorySnapshot, SnapshotSkipped,
         EnvironmentFails, RunProbe, RemoveProbeDirectory, Intrude, reportVars
    <3>. QED  BY <2>0, <3>1, Zenon
  <2>. QED  BY <2>1, <2>2
<1>7. capable' \subseteq AgentsAt
  BY <1>0, FindingsAre DEF Quiet, Started, Ended, ProbeAgents, Halted, Probed
<1>8. slow' \in BOOLEAN  BY SlowStays
<1>9. fate' \in Verdicts \cup {"none", "error"}  BY FateKeeps
<1>10. DOMAIN verdicts' \subseteq Keys /\ \A k \in DOMAIN verdicts' : verdicts'[k] \in Verdicts  BY VerdictsKeep
<1>11. previous'.listed \subseteq ProbeFiles  BY SnapshotKeeps
<1>12. {unchecked', leftover', slow'} \subseteq BOOLEAN  BY <1>5, <1>6, <1>8, Zenon
<1>. QED  BY <1>1, <1>2, <1>3, <1>4, <1>7, <1>9, <1>10, <1>11, <1>12, FilesKeep DEF ProbeTypeOK

LEMMA ProbeBegins == ProbeInit => ProbeInv
<1>. SUFFICES ASSUME ProbeInit PROVE ProbeInv  OBVIOUS
<1>. USE DEF ProbeInit
<1>0. MaxWrites \in Nat /\ MaxIntrusions \in Nat /\ TrackedFiles \cap UntrackedFiles = {}
  BY ProbeAssumption DEF ProbeAssumption
<1>1. files \in [ProbeFiles -> FileStates]  BY DEF FileStates
<1>2. ProbeTypeOK
  <2>1. DOMAIN verdicts = {}  OBVIOUS
  <2>2. previous.listed = {}  BY DEF NoSnapshot
  <2>3. location \in Nat \ {0} /\ location <= Len(CaseExecutableLocations) + 1  BY LocatedIs
  <2>4. {unchecked, leftover, slow} \subseteq BOOLEAN  BY Zenon
  <2>5. writings \in 0..MaxWrites /\ intrusions \in 0..MaxIntrusions  BY <1>0
  <2>. QED  BY <1>1, <2>1, <2>2, <2>3, <2>4, <2>5 DEF ProbeTypeOK
<1>3. ListingFits  BY DEF ListingFits
<1>4. SnapshotFits
  <2>1. truth.files = files /\ truth.hidden = {}  OBVIOUS
  <2>. QED  BY <1>1, <2>1 DEF SnapshotFits
<1>5. FateFits  BY DEF FateFits, Verdicts
<1>6. VerdictsFit  BY DEF VerdictsFit
<1>7. FindingsFit
  <2>1. \A i \in Located : ~(i < location)  BY LocatedIs
  <2>. QED  BY <2>1 DEF FindingsFit, Wanting
<1>8. ObservedFits /\ ToldFits  BY DEF ObservedFits, ToldFits
<1>. QED  BY <1>2, <1>3, <1>4, <1>5, <1>6, <1>7, <1>8 DEF ProbeInv

LEMMA ProbeStutters ==
  ASSUME ProbeInv, UNCHANGED probeVars
  PROVE  ProbeInv'
<1>1. UNCHANGED <<validating, location, probe, running, fate, files, hidden, writings, intrusions, torn, listing,
                  previous, unchecked, observed, truth, altered, verdicts, leftover, notices, capable, slow>>
  BY DEF probeVars, probeSteps, directoryVars, snapshotVars, reportVars
<1>2. ProbeTypeOK' /\ ListingFits' /\ SnapshotFits' /\ FateFits' /\ VerdictsFit'
  BY <1>1 DEF ProbeInv, ProbeTypeOK, ListingFits, Watching, Shown, SnapshotFits, FateFits, Right, VerdictsFit
<1>3. FindingsFit' /\ ObservedFits' /\ ToldFits'
  BY <1>1 DEF ProbeInv, FindingsFit, Wanting, Stopped, ObservedFits, Agree, ToldFits
<1>. QED  BY <1>2, <1>3 DEF ProbeInv

LEMMA ProbeHolds == ProbeSpec => []ProbeInv
<1>1. ProbeInv /\ [ProbeNext]_probeVars => ProbeInv'
  <2>. SUFFICES ASSUME ProbeInv, [ProbeNext]_probeVars PROVE ProbeInv'  OBVIOUS
  <2>1. CASE ProbeNext
    BY <2>1, ProbeTypesKeep, ListingKeeps, SnapshotKeeps, FateKeeps, VerdictsKeep, FindingsKeep, ObservedKeep, ToldKeep
       DEF ProbeInv
  <2>2. CASE UNCHANGED probeVars  BY <2>2, ProbeStutters
  <2>. QED  BY <2>1, <2>2
<1>. QED  BY <1>1, ProbeBegins, PTL DEF ProbeSpec

-----------------------------------------------------------------------------
(* The probe has its type: the states that its steps and its findings are in, and every *)
(* verdict at a key of a command (collectCaseExecutableFindings).          *)
THEOREM ProbeTypeCorrect == ProbeSpec => []ProbeTypeOK
<1>1. ProbeInv => ProbeTypeOK  BY DEF ProbeInv
<1>. QED  BY <1>1, ProbeHolds, PTL

(* Validation tells the truth of the commands and of what probing them did to the       *)
(* operator's directory, for every configuration and every number of changes            *)
(* (collectCaseExecutableFindings, probe, createDirectorySnapshotWatcher).              *)
THEOREM ProbesAreTrue == ProbeSpec => []ProbesTellTheTruth
<1>1. ASSUME ProbeInv PROVE ProbesTellTheTruth
  <2>0. FindingsFit /\ ToldFits /\ location \in Nat  BY <1>1, ProbeTypes DEF ProbeInv
  <2>1. \A i \in Located : Wanting(i) => Lacks(i)  BY <2>0 DEF FindingsFit
  <2>2. validating = "done" /\ ~Stopped /\ ~slow =>
          \A i \in Located : Judged(i) => (Wanting(i) <=> Lacks(i))
    <3>1. HAVE validating = "done" /\ ~Stopped /\ ~slow
    <3>2. location \notin Located  BY <2>0, <3>1 DEF FindingsFit
    <3>3. \A i \in Located : i < location
      <4>1. location \in Nat \ {0} /\ location <= Len(CaseExecutableLocations) + 1  BY <1>1, ProbeTypes
      <4>. QED  BY <3>2, <4>1, LocatedIs
    <3>. QED  BY <2>0, <3>1, <3>3 DEF FindingsFit
  <2>3. /\ \A i \in Located : Wanting(i) => Where(i).agent \notin capable
        /\ leftover => [kind |-> "prerequisite"] \in notices
    BY <2>0 DEF FindingsFit
  <2>4. \A n \in notices : n.kind = "changed" =>
          \E a \in altered : a.at = n.at /\ a.run = n.run /\ a.known
                             /\ \A f \in ProbeFiles \ a.torn : a.change[f] = n.change[f]
    BY <2>0 DEF ToldFits, Agree
  <2>5. \A a \in altered : a.at < location =>
          IF a.known
          THEN \/ \A f \in ProbeFiles \ a.torn : a.change[f] = "none"
               \/ \E n \in notices : n.kind = "changed" /\ n.at = a.at /\ n.run = a.run
          ELSE [kind |-> "unchecked", at |-> a.at] \in notices
    BY <2>0 DEF ToldFits
  <2>. QED  BY <2>1, <2>2, <2>3, <2>4, <2>5 DEF ProbesTellTheTruth, Lacks
<1>. QED  BY <1>1, ProbeHolds, PTL

-----------------------------------------------------------------------------
(* The seven side by side. Each takes its own steps, and but for the text  *)
(* of the configuration each starts, at rest, as it would by itself.       *)

LEMMA SourcesSideBySide ==
  /\ SourcesSpec => WorkspaceSpec
  /\ SourcesSpec => CloneSpec
  /\ SourcesSpec => AddSpec
  /\ SourcesSpec => InterviewSpec
  /\ SourcesSpec => BaseSpec
  /\ SourcesSpec => ProbeSpec
<1>1. SourcesInit => WorkspaceInit /\ CloneInit /\ AddInit /\ InterviewInit /\ BaseInit /\ ProbeInit  BY DEF SourcesInit
<1>2. [SourcesNext]_sourcesVars => [WorkspaceNext]_workspaceVars  BY DEF SourcesNext, sourcesVars
<1>3. [SourcesNext]_sourcesVars => [CloneNext]_cloneVars  BY DEF SourcesNext, sourcesVars
<1>4. [SourcesNext]_sourcesVars => [AddNext]_addVars  BY DEF SourcesNext, sourcesVars
<1>5. [SourcesNext]_sourcesVars => [InterviewNext]_interviewVars  BY DEF SourcesNext, sourcesVars
<1>6. [SourcesNext]_sourcesVars => [BaseNext]_baseVars  BY DEF SourcesNext, sourcesVars
<1>7. [SourcesNext]_sourcesVars => [ProbeNext]_probeVars  BY DEF SourcesNext, sourcesVars
<1>. QED  BY <1>1, <1>2, <1>3, <1>4, <1>5, <1>6, <1>7, PTL
          DEF SourcesSpec, WorkspaceSpec, CloneSpec, AddSpec, InterviewSpec, BaseSpec, ProbeSpec

\* At rest nothing is appended.
DocumentAside == IF component = "document" THEN DocumentInv ELSE appended = <<>>

LEMMA DocumentAsideHolds == SourcesSpec => []DocumentAside
<1>1. SourcesInit => DocumentAside  BY DocumentStarts DEF SourcesInit, DocumentAside, NoDocument
<1>2. DocumentAside /\ [SourcesNext]_sourcesVars => DocumentAside'
  <2>. SUFFICES ASSUME DocumentAside, [SourcesNext]_sourcesVars  PROVE DocumentAside'  OBVIOUS
  <2>1. component' = component  BY DEF SourcesNext, sourcesVars
  <2>2. CASE component = "document"
    <3>1. DocumentInv  BY <2>2 DEF DocumentAside
    <3>2. [DocumentNext]_documentVars  BY DEF SourcesNext, sourcesVars
    <3>3. DocumentInv'  BY <3>1, <3>2, DocumentSteps
    <3>. QED  BY <2>1, <2>2, <3>3 DEF DocumentAside
  <2>3. CASE component # "document"
    <3>1. appended = <<>>  BY <2>3 DEF DocumentAside
    <3>2. UNCHANGED documentVars  BY <2>3 DEF SourcesNext, sourcesVars
    <3>3. appended' = <<>>  BY <3>1, <3>2 DEF documentVars
    <3>. QED  BY <2>1, <2>3, <3>3 DEF DocumentAside
  <2>. QED  BY <2>2, <2>3
<1>. QED  BY <1>1, <1>2, PTL DEF SourcesSpec

\* Every variable of the component that is looked at keeps its type.
THEOREM SourcesTypeCorrect == SourcesSpec => []SourcesTypeOK
<1>1. DocumentAside /\ WorkspaceTypeOK /\ CloneTypeOK /\ AddTypeOK /\ InterviewTypeOK /\ BaseTypeOK /\ ProbeTypeOK
        => SourcesTypeOK
  BY DEF SourcesTypeOK, DocumentAside, DocumentInv
<1>. QED  BY <1>1, SourcesSideBySide, DocumentAsideHolds, WorkspaceTypeCorrect, CloneTypeCorrect, AddTypeCorrect,
             InterviewTypeCorrect, BaseTypeCorrect, ProbeTypeCorrect, PTL

(* What the run `sources` checks on small instances holds of its behaviours for every   *)
(* value of the constants: the patch and the grading of a case's worktree, the managed  *)
(* clone, the configuration task add saves and what it asks and appends for it, the     *)
(* reference solution, and what validation tells of the commands.                       *)
THEOREM SourcesAreSound ==
  SourcesSpec => [](/\ SealedIsWhole /\ PatchIsAgentsWork /\ CheckStateExact /\ CloneSound
                    /\ ConfigKept /\ InterruptsHonoured /\ InterviewSound /\ DocumentKept
                    /\ BaseIsBeforeReference /\ ProbesTellTheTruth)
<1>1. DocumentAside => DocumentKept
  <2>1. appended = <<>> => DocumentKept  BY DEF DocumentKept
  <2>. QED  BY <2>1, InvKeepsDocument DEF DocumentAside
<1>. QED  BY <1>1, SourcesSideBySide, DocumentAsideHolds, SealedCaseIsWhole, PatchIsTheAgents, CheckStateIsExact,
             CloneIsSound, ConfigIsKept, InterruptsAreHonoured, InterviewIsSound, BaseComesBefore, ProbesAreTrue, PTL
================================================================================
