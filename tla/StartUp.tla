------------------------------ MODULE StartUp ------------------------------
(***************************************************************************)
(* The start of a device tree: handles on features (src/src/UdiFeature.h,  *)
(* src/src/IDevice.cpp) and the mounts that shape the tree before they are *)
(* resolved (src/src/IDevice.h).  A handle's constructor joins its owner's *)
(* list; a device's mounts decide which devices it grows and whom it hosts;*)
(* then every handle is resolved, or the start stops.                      *)
(*                                                                         *)
(* The framework that drives this is external: it is modelled as IDevice.h *)
(* and UdiFeature.h describe it.                                           *)
(***************************************************************************)
EXTENDS Integers, FiniteSets, SequencesExt, ForEach, NullPointer

CONSTANTS
  Devices, Root,
  Needs,        \* the handles of each device, in declaration order
  From, Wanted, \* of each handle: the device asked, and the feature
  Lists,        \* of each device: its classes, the most derived first, and
                \* the features each lists
  MountValues,  \* of each device: the values its mount may get
  Grows(_, _),  \* the devices it has under that value
  Hosts(_, _)   \* the device it forwards to under that value, or Null

Handles == UNION {ToSet(Needs[d]) : d \in Devices}
Features == {Wanted[h] : h \in Handles}

\* A handle is a member of one device and names another; what a mount's
\* value makes a device grow is a finite part of the devices, and a class
\* lists no more features than UDI_FOR_EACH takes.
ASSUME StartUpAssumption ==
  /\ Root \in Devices /\ IsFiniteSet(Devices) /\ Null \notin Devices
  /\ IsFiniteSet(Handles) /\ Null \notin Handles
  /\ \A d \in Devices : Needs[d] \in Seq(Handles)
  /\ \A d, e \in Devices : \A i \in DOMAIN Needs[d], j \in DOMAIN Needs[e] :
       Needs[d][i] = Needs[e][j] => d = e /\ i = j
  /\ \A h \in Handles : From[h] \in Devices
  /\ Null \notin [device : Devices, feature : Features]
  /\ MaxArgs \in Nat
  /\ \A d \in Devices : \A c \in DOMAIN Lists[d] :
       Lists[d][c] \in Seq(ToSet(Lists[d][c])) /\ Len(Lists[d][c]) <= MaxArgs
  /\ \A d \in Devices : "none" \notin MountValues[d]
  /\ \A d \in Devices : \A value \in MountValues[d] :
       IsFiniteSet(Grows(d, value)) /\ Grows(d, value) \subseteq Devices
  /\ \A d \in Devices : \A value \in MountValues[d] \cup {"none"} :
       Hosts(d, value) \in Devices \cup {Null}

VARIABLES
  phase,      \* "see", "call", "resolve", "begin", "scan" or "stopped"
  tree,       \* the devices of the tree, in the order they joined it
  made,       \* how many of its handles each device has constructed
  udiNeeds,   \* udiNeeds_: the first handle of each device's list
  next,       \* next_ of each handle
  feature,    \* feature_ of each handle: [device, feature], or Null
  mount,      \* the value of each device's mount, "none" until applied
  mountPass,  \* udiMountPass
  pass,       \* the framework's pass
  calls,      \* ghost: how often mounted() was called
  asked,      \* the handles resolve() was called on, in order
  missing     \* the handles that did not resolve, in the order found

startVars == <<phase, tree, made, udiNeeds, next, feature, mount, mountPass, pass,
               calls, asked, missing>>

StartTypeOK ==
  /\ phase \in {"see", "call", "resolve", "begin", "scan", "stopped"}
  /\ tree \in Seq(Devices) /\ IsInjective(tree)
  /\ \A d \in Devices : made[d] \in 0 .. Len(Needs[d])
  /\ udiNeeds \in [Devices -> Handles \cup {Null}]
  /\ next \in [Handles -> Handles \cup {Null}]
  /\ \A d \in Devices : mount[d] \in MountValues[d] \cup {"none"}
  /\ mountPass \in [Devices -> 0 .. pass]
  /\ asked \in Seq(Handles) /\ ToSet(missing) \subseteq ToSet(asked)

StartInit ==
  /\ phase = "see"
  /\ tree = <<Root>>
  /\ made = [d \in Devices |-> 0]
  /\ udiNeeds = [d \in Devices |-> Null]
  /\ next = [h \in Handles |-> Null]
  /\ feature = [h \in Handles |-> Null]
  /\ mount = [d \in Devices |-> "none"]
  /\ mountPass = [d \in Devices |-> 0]
  /\ pass = 1
  /\ calls = [d \in Devices |-> 0]
  /\ asked = << >>
  /\ missing = << >>

-----------------------------------------------------------------------------
(* Handles                                                                 *)

\* The handles on a device's list, in list order: next_ followed from
\* udiNeeds_ until it is Null.
ListOf(d) ==
  LET node[i \in 0 .. Cardinality(Handles)] ==
        IF i = 0 THEN udiNeeds[d]
        ELSE IF node[i - 1] = Null THEN Null ELSE next[node[i - 1]]
  IN  [i \in 1 .. Cardinality({j \in DOMAIN node : node[j] # Null}) |-> node[i - 1]]

\* The constructor's search for the end: the owner's own pointer or the
\* next_ of its last handle.
Join(d, h) ==
  IF udiNeeds[d] = Null
    THEN udiNeeds' = [udiNeeds EXCEPT ![d] = h] /\ UNCHANGED next
    ELSE next' = [next EXCEPT ![Last(ListOf(d))] = h] /\ UNCHANGED udiNeeds

Complete(d) == made[d] = Len(Needs[d])

\* The constructor of a device's next handle.  Devices are constructed in
\* any order, one inside another too, before a tree holds them or as it
\* grows.
Construct(d) ==
  /\ phase \in {"see", "call"} /\ ~Complete(d)
  /\ made' = [made EXCEPT ![d] = @ + 1]
  /\ Join(d, Needs[d][made[d] + 1])
  /\ UNCHANGED <<phase, tree, feature, mount, mountPass, pass, calls, asked, missing>>

\* UDI_FEATURES: one test of the id for each listed feature.
Cases(listed) == ToSet(UDI_FOR_EACH([f \in ToSet(listed) |-> f], listed))

\* UDI_FEATURES_EXTENDS: the derived class's tests, then its base's.
ListsOf(d) == UNION {Cases(Lists[d][c]) : c \in DOMAIN Lists[d]}

\* The pointer is the device's part that is the feature.
Own(d, id) == IF id \in ListsOf(d) THEN [device |-> d, feature |-> id] ELSE Null

\* The device one forwards to, or Null.
Host(d) == Hosts(d, mount[d])

\* Mutant: a device with features of its own does not ask the one it hosts.
udiFeature_Self(device, id) == Own(device, id)
\* udiFeature(): asked of a device that hosts another, it asks that one.
\* Hosting nests no deeper than there are devices.
udiFeature(device, id) ==
  LET ask[n \in 0 .. Cardinality(Devices)] ==
        [d \in Devices |->
           IF n = 0 \/ Host(d) = Null THEN Own(d, id) ELSE ask[n - 1][Host(d)]]
  IN  ask[Cardinality(Devices)][device]

-----------------------------------------------------------------------------
(* The framework (external)                                                *)

\* Mutant: the device is not marked.
Mark_Not(d) == UNCHANGED mountPass
Mark(d) == mountPass' = [mountPass EXCEPT ![d] = pass]

\* A device is seen for the first time: its mounts are applied.
See(d, value) ==
  /\ phase = "see" /\ d \in ToSet(tree) /\ Complete(d) /\ mountPass[d] = 0
  /\ Mark(d)
  /\ mount' = [mount EXCEPT ![d] = value]
  /\ UNCHANGED <<phase, tree, made, udiNeeds, next, feature, pass, calls, asked, missing>>

AllSeen == \A d \in ToSet(tree) : mountPass[d] # 0

EndOfSee ==
  /\ phase = "see" /\ AllSeen
  /\ phase' = "call"
  /\ UNCHANGED <<tree, made, udiNeeds, next, feature, mount, mountPass, pass, calls, asked, missing>>

\* The devices whose mounts this pass applied and that wait for mounted().
Due == {d \in ToSet(tree) : mountPass[d] = pass /\ calls[d] = 0}

\* mounted(): the device decides its shape; new children join the tree.
Mounted(d) ==
  /\ phase = "call" /\ d \in Due
  /\ calls' = [calls EXCEPT ![d] = @ + 1]
  /\ tree' = tree \o SetToSeq(Grows(d, mount[d]) \ ToSet(tree))
  /\ UNCHANGED <<phase, made, udiNeeds, next, feature, mount, mountPass, pass, asked, missing>>

Grown == ~AllSeen

EndOfPass ==
  /\ phase = "call" /\ Due = {}
  /\ IF Grown
       THEN phase' = "see" /\ pass' = pass + 1
       ELSE phase' = "resolve" /\ UNCHANGED pass
  /\ UNCHANGED <<tree, made, udiNeeds, next, feature, mount, mountPass, calls, asked, missing>>

\* udiFirstNeed() of every device, and next() along its list.
Walk == FlattenSeq([i \in DOMAIN tree |-> ListOf(tree[i])])

Listed(h) == <<h>>

\* resolve(): asks the device, and says whether it has the feature.
Resolve(h) ==
  /\ phase = "resolve" /\ Len(asked) < Len(Walk)
  /\ h = Walk[Len(asked) + 1]
  /\ feature' = [feature EXCEPT ![h] = udiFeature(From[h], Wanted[h])]
  /\ missing' = IF feature'[h] = Null THEN missing \o Listed(h) ELSE missing
  /\ asked' = Append(asked, h)
  /\ UNCHANGED <<phase, tree, made, udiNeeds, next, mount, mountPass, pass, calls>>

\* Every handle was asked for: a missing one stops the start.
EndOfResolve ==
  /\ phase = "resolve" /\ Len(asked) = Len(Walk)
  /\ phase' = IF missing # << >> THEN "stopped" ELSE "begin"
  /\ UNCHANGED <<tree, made, udiNeeds, next, feature, mount, mountPass, pass, calls, asked, missing>>

\* The devices begin, and the scan runs from then on.
Begin ==
  /\ phase = "begin"
  /\ phase' = "scan"
  /\ UNCHANGED <<tree, made, udiNeeds, next, feature, mount, mountPass, pass, calls, asked, missing>>

-----------------------------------------------------------------------------
StartNext ==
  \/ \E d \in Devices :
       \/ Construct(d)
       \/ \E value \in MountValues[d] : See(d, value)
       \/ Mounted(d)
  \/ EndOfSee \/ EndOfPass
  \/ \E h \in Handles : Resolve(h)
  \/ EndOfResolve \/ Begin

StartSpec == StartInit /\ [][StartNext]_startVars

\* The start runs on its own: while it has a step to take it takes one.
StartFairSpec == StartSpec /\ WF_startVars(StartNext)

-----------------------------------------------------------------------------
(* Properties                                                              *)

\* However the constructions of the devices interleave, a device's list
\* holds the handles it has made so far, each once, in declaration order
\* (IDevice.cpp: a handle joins the END of its owner's list).
HandlesInOrder ==
  \A d \in Devices : ListOf(d) = SubSeq(Needs[d], 1, made[d])

\* mounted() is called exactly once on every device of the tree, the ones
\* that joined it late too, after the device's own mounts are applied and
\* before a handle is resolved (IDevice.h: mounted()).
MountedOnce ==
  \A d \in Devices :
    /\ calls[d] <= 1
    /\ calls[d] = 1 => mount[d] # "none"
    /\ phase \notin {"see", "call"} /\ d \in ToSet(tree) => calls[d] = 1

\* What a device became: itself, or what the devices it hosts became.
Became(device) ==
  LET at[n \in 0 .. Cardinality(Devices)] ==
        IF n = 0 THEN device
        ELSE IF Host(at[n - 1]) = Null THEN at[n - 1] ELSE Host(at[n - 1])
  IN  at[Cardinality(Devices)]

HasFeature(d, f) == \E c \in DOMAIN Lists[d] : f \in ToSet(Lists[d][c])

\* From begin() on no handle is null, and each is the feature of the device
\* the mounts made of the one it names: not of the device as it was before
\* a mount chose what it hosts (UdiFeature.h: "asked as what it became").
StartOnlyResolved ==
  phase \in {"begin", "scan"} =>
    \A i \in DOMAIN tree : \A h \in ToSet(Needs[tree[i]]) :
      feature[h] = [device |-> Became(From[h]), feature |-> Wanted[h]]

\* The handles their devices cannot satisfy.
Lacking == {h \in Handles : ~HasFeature(Became(From[h]), Wanted[h])}

\* The members of a sequence that are in S, in the order of the sequence.
Among(hs, S) ==
  LET upTo[n \in 0 .. Len(hs)] ==
        IF n = 0 THEN << >>
        ELSE IF hs[n] \in S THEN Append(upTo[n - 1], hs[n]) ELSE upTo[n - 1]
  IN  upTo[Len(hs)]

\* A start that stops has listed every handle its devices cannot satisfy,
\* a base class's features counted, each once, in the order of the tree
\* and of the declarations; and it stops only then.
AllMissingListed ==
  phase \notin {"see", "call", "resolve"} =>
    LET unmet == Among(FlattenSeq([i \in DOMAIN tree |-> Needs[tree[i]]]), Lacking)
    IN  missing = unmet /\ (phase = "stopped" <=> unmet # << >>)

\* The five together: what a start comes to.
StartRightly ==
  /\ StartTypeOK
  /\ HandlesInOrder
  /\ MountedOnce
  /\ StartOnlyResolved
  /\ AllMissingListed

\* A tree that stops growing starts or is refused: the passes, the lists
\* and the forwarding of hosts all end.
StartUpEnds == <>(phase \in {"scan", "stopped"})
=============================================================================
