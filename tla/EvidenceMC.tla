------------------------------- MODULE EvidenceMC -------------------------------
(***************************************************************************)
(* Four components that write what a run leaves behind, one per behaviour: *)
(* the artifact store, a session of the agent, the calls of a model, and   *)
(* the redaction of what a process prints. They do not share state, and    *)
(* one run checks them all.                                                *)
(***************************************************************************)
EXTENDS ArtifactStore, AgentSession, ModelCalls, StreamRedaction

VARIABLE component

Components == {"store", "session", "calls", "redaction"}
evidenceVars == <<component, storeVars, sessionVars, callVars, redactionVars>>

\* The components at rest are in one state each.
EvidenceInit ==
  /\ component \in Components
  /\ StoreInit /\ SessionInit /\ CallsInit /\ RedactionInit
  /\ component # "session" => mode = "case"
  /\ component # "calls" => job = "grade"
  /\ component # "redaction" => secretValues = CHOOSE S \in SecretSets : TRUE

EvidenceNext ==
  /\ \/ component = "store" /\ StoreNext /\ UNCHANGED <<sessionVars, callVars, redactionVars>>
     \/ component = "session" /\ SessionNext /\ UNCHANGED <<storeVars, callVars, redactionVars>>
     \/ component = "calls" /\ CallsNext /\ UNCHANGED <<storeVars, sessionVars, redactionVars>>
     \/ component = "redaction" /\ RedactionNext /\ UNCHANGED <<storeVars, sessionVars, callVars>>
  /\ UNCHANGED component

EvidenceSpec == EvidenceInit /\ [][EvidenceNext]_evidenceVars

\* The type invariants of the four.
EvidenceTypeOK == StoreTypeOK /\ SessionTypeOK /\ CallsTypeOK /\ RedactionTypeOK

\* No instance of the store differs from another.
Alike == Permutations(Instances)

\* The lines an agent may print, the errors of both sessions among them.
PrintedLines ==
  [kind : {"error"}, session : Sessions]
    \cup {[kind |-> "part", session |-> "root"], [kind |-> "unredactable", session |-> "child"]}
    \cup [kind : {"additive", "malformed", "layout"}, session : {"none"}]

\* A secret that repeats its start, one that ends as it starts, two that stay
\* apart, one that begins another, and one that begins as another ends.
SecretFamilies ==
  {{<<"a", "a", "b">>}, {<<"a", "b", "a">>}, {<<"a", "w">>, <<"b", "b">>},
   {<<"a", "b">>, <<"a", "b", "b">>}, {<<"b", "w", "a">>, <<"a", "b">>}}
=============================================================================
