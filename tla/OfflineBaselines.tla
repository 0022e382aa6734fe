---------------------------- MODULE OfflineBaselines ----------------------------
(***************************************************************************)
(* The offline baselines of the evaluation harness (edd): for every        *)
(* specialist the gates that need no model are run and a manifest of the   *)
(* result is kept under a name, and an index says which name is current.   *)
(* Processes that create a baseline run side by side and may be killed.    *)
(***************************************************************************)
EXTENDS Integers, Sequences

CONSTANTS
  Gated,       \* the specialists, in the order of their gates
  Names,       \* names of baselines
  Clean,       \* the specialists whose gates pass, for each revision of the sources
  MaxCreates   \* bound: creations started in all

\* There is something to gate.
ASSUME GatedAssumption == Len(Gated) \in Nat \ {0} /\ DOMAIN Gated = 1..Len(Gated)

VARIABLES
  revision,    \* the revision of the sources on disk
  manifests,   \* the manifest of each specialist under each name
  index,       \* the index
  maker,       \* what each process that creates a baseline is doing
  creates      \* how many were started

baselineVars == <<revision, manifests, index, maker, creates>>

Makers == 1..MaxCreates

\* The sources a manifest names, and those its gates were run on.
NoManifest == [state |-> "none", sources |-> 0, gated |-> 0]
NoIndex == [state |-> "none", name |-> "none"]
Asleep == [pc |-> "idle", name |-> "none", done |-> 0, gated |-> 0, sources |-> 0]

BaselinesInit ==
    /\ revision = 0
    /\ manifests = [n \in Names |-> [i \in DOMAIN Gated |-> NoManifest]]
    /\ index = NoIndex
    /\ maker = [p \in Makers |-> Asleep]
    /\ creates = 0

Mark(p, now) == maker' = [maker EXCEPT ![p] = now]

CreateBaseline(p) ==
    /\ maker[p].pc = "idle"
    /\ p = creates + 1
    /\ creates' = p
    /\ \E n \in Names : Mark(p, [Asleep EXCEPT !.pc = "gate", !.name = n])
    /\ UNCHANGED <<revision, manifests, index>>

At(p) == maker[p].done + 1

\* The contract tests and, for the deterministic pipelines, every case of
\* layer 1 have to pass.
Passes(c) == c \in Clean[revision]

Gate(p) ==
    /\ maker[p].pc = "gate"
    /\ \/ /\ Passes(Gated[At(p)])
          /\ Mark(p, [maker[p] EXCEPT !.pc = "compare", !.gated = revision])
       \/ /\ ~Passes(Gated[At(p)])
          /\ Mark(p, [maker[p] EXCEPT !.pc = "failed"])
    /\ UNCHANGED <<revision, manifests, index, creates>>

Proceed(now) ==
    [now EXCEPT !.done = @ + 1, !.pc = IF now.done + 1 = Len(Gated) THEN "index" ELSE "gate"]

\* The sources are read again for the manifest. A manifest that is there has to
\* be readable and to say the same.
Compare(p) ==
    /\ maker[p].pc = "compare"
    /\ LET there == manifests[maker[p].name][At(p)]
       IN  \/ /\ there.state = "none"
              /\ Mark(p, [maker[p] EXCEPT !.pc = "open", !.sources = revision])
           \/ /\ there.state = "whole" /\ there.sources = revision
              /\ Mark(p, Proceed(maker[p]))
           \/ /\ there.state = "torn" \/ (there.state = "whole" /\ there.sources # revision)
              /\ Mark(p, [maker[p] EXCEPT !.pc = "failed"])
    /\ UNCHANGED <<revision, manifests, index, creates>>

\* The manifest is opened only if it is not there; that another process opened
\* it first ends this one.
Open(p) ==
    /\ maker[p].pc = "open"
    /\ LET there == manifests[maker[p].name][At(p)]
       IN  \/ /\ there.state = "none"
              /\ manifests' = [manifests EXCEPT ![maker[p].name][At(p)] =
                    [state |-> "torn", sources |-> maker[p].sources, gated |-> maker[p].gated]]
              /\ Mark(p, [maker[p] EXCEPT !.pc = "write"])
           \/ /\ there.state # "none"
              /\ Mark(p, [maker[p] EXCEPT !.pc = "failed"])
              /\ UNCHANGED manifests
    /\ UNCHANGED <<revision, index, creates>>

Write(p) ==
    /\ maker[p].pc = "write"
    /\ manifests' = [manifests EXCEPT ![maker[p].name][At(p)].state = "whole"]
    /\ Mark(p, Proceed(maker[p]))
    /\ UNCHANGED <<revision, index, creates>>

\* The index is rewritten in place when every manifest is there.
OpenIndex(p) ==
    /\ maker[p].pc = "index"
    /\ index' = [state |-> "torn", name |-> maker[p].name]
    /\ Mark(p, [maker[p] EXCEPT !.pc = "indexed"])
    /\ UNCHANGED <<revision, manifests, creates>>

WriteIndex(p) ==
    /\ maker[p].pc = "indexed"
    /\ index' = [state |-> "whole", name |-> maker[p].name]
    /\ Mark(p, [maker[p] EXCEPT !.pc = "done"])
    /\ UNCHANGED <<revision, manifests, creates>>

CrashMaker(p) ==
    /\ maker[p].pc \in {"write", "indexed"}
    /\ Mark(p, [maker[p] EXCEPT !.pc = "failed"])
    /\ UNCHANGED <<revision, manifests, index, creates>>

Revise ==
    /\ revision + 1 \in DOMAIN Clean
    /\ revision' = revision + 1
    /\ UNCHANGED <<manifests, index, maker, creates>>

MakerStep(p) ==
    \/ Gate(p) \/ Compare(p) \/ Open(p) \/ Write(p) \/ OpenIndex(p) \/ WriteIndex(p)

BaselinesNext == Revise \/ \E p \in Makers : CreateBaseline(p) \/ MakerStep(p) \/ CrashMaker(p)

BaselinesSpec == BaselinesInit /\ [][BaselinesNext]_baselineVars

-----------------------------------------------------------------------------
\* verify_offline_baselines
Verified ==
    /\ index.state = "whole"
    /\ \A i \in DOMAIN Gated :
         LET manifest == manifests[index.name][i]
         IN  manifest.state = "whole" /\ manifest.sources = revision

\* What verification accepts passed its gates with the very sources on disk,
\* unless they were edited between the gates and the manifest
\* (offline_baselines.py: verify_offline_baselines).
VerifiedWasGated ==
    Verified =>
      \A i \in DOMAIN Gated :
        LET manifest == manifests[index.name][i]
        IN  Gated[i] \in Clean[revision] \/ manifest.gated # revision

\* A readable index names a baseline that has a complete manifest of every
\* specialist (create_offline_baselines).
IndexIsBacked ==
    index.state = "whole" =>
      \A i \in DOMAIN Gated : manifests[index.name][i].state = "whole"
=============================================================================
