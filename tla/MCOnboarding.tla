------------------------------ MODULE MCOnboarding ------------------------------
(***************************************************************************)
(* Three requests after one another or at once, a roster entry whose        *)
(* contact and kind HR may correct, three plans and one decision under two  *)
(* handlers.  The parts write no common row once the entry is registered,   *)
(* so that plans and decisions are tried after a registration without       *)
(* detours, and registration goes on only while they have not begun.  One    *)
(* evaluation runs at a time: others share with it only tables they read.    *)
(***************************************************************************)
EXTENDS Onboarding, TLC

Row == {"present", "eligible", "numbered"}
MCChanges == {Row \cup {"home"}, Row \cup {"resident"}, {"present", "numbered", "home"}}
Bands(mode) == [green |-> 20, amber |-> 60, mode |-> mode]
MCPatches == {Bands("live"), Bands("shadow")}
Symmetry == Permutations(Requests) \cup Permutations(Handlers) \cup Permutations(Contacts)
               \cup Permutations(Plans)

Registered ==
    /\ \A h \in Handlers : Free(h)
    /\ accounts = {roster.contact} /\ linked = {roster.kind}
    /\ Cardinality({q \in Requests : req[q] = "none"}) = Cardinality(Requests) - 1
    /\ ~ raced

MCNext ==
    \/ P!Init /\ E!Init /\ RegistrationStep
    \/ Registered /\ (PlanStep \/ StaffStep) /\ Cardinality({h \in Handlers : Evaluating(h)'}) <= 1

MCSpec == OnboardingInit /\ [][MCNext]_vars
=============================================================================
