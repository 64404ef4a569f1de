------------------------- MODULE MuxRegisterProofs -------------------------
(***************************************************************************)
(* For any number of backends, ids, version lists and failures: what a     *)
(* backend has after it came up is its own, and what it registered for.    *)
(***************************************************************************)
EXTENDS MuxRegister, TLAPS

(***************************************************************************)
(* The invariant.  A region is known by its name for as long as it is      *)
(* mapped, so that O_EXCL refuses it to everyone else; the id is set       *)
(* exactly by a successful registration; and the version was compared      *)
(* before the call.                                                        *)
(***************************************************************************)
RegionNamed ==
  \A p \in Proc : region[p] # NULL => region[p] = IdOf[p] /\ region[p] \in names

IdByRegistration ==
  \A p \in Proc : /\ Live(p) => vmId[p] = IdOf[p]
                  /\ pc[p] \in {"initialized", "proxy", "call"} => vmId[p] = 0

VersionCompared ==
  \A p \in Proc : Live(p) \/ pc[p] = "call" => cached[p] # NULL /\ Compatible(cached[p])

IInv == TypeOK /\ RegionNamed /\ IdByRegistration /\ VersionCompared /\ RegionsAreExclusive

-----------------------------------------------------------------------------
\* The steps of one backend, and those of the server.
ProcStep(p) == \/ InitDisplayStruct(p) \/ ProxyNew(p) \/ CheckVersions(p)
               \/ CallRegister(p) \/ Connect(p) \/ CreateRegion(p)
               \/ Shutdown(p) \/ Crash(p)

LEMMA InitIInv ==
  ASSUME Init
  PROVE  IInv
BY RegisterAssumption
   DEF Init, IInv, TypeOK, RegionNamed, IdByRegistration, VersionCompared,
       RegionsAreExclusive, Live

LEMMA ServerKeepsIInv ==
  ASSUME IInv, ServerChanges
  PROVE  IInv'
BY DEF ServerChanges, IInv, TypeOK, RegionNamed, IdByRegistration, VersionCompared,
       RegionsAreExclusive, Live

LEMMA InitDisplayStructKeepsIInv ==
  ASSUME IInv, NEW p \in Proc, InitDisplayStruct(p)
  PROVE  IInv'
<1>1. TypeOK'
  BY RegisterAssumption
     DEF InitDisplayStruct, Step, Refuse, Fail, server, IInv, TypeOK
<1>2. RegionNamed' /\ RegionsAreExclusive'
  BY DEF InitDisplayStruct, server, IInv, TypeOK, RegionNamed, RegionsAreExclusive
<1>3. IdByRegistration' /\ VersionCompared'
  BY DEF InitDisplayStruct, Step, Fail, server, IInv, TypeOK, IdByRegistration,
         VersionCompared, Live
<1> QED
  BY <1>1, <1>2, <1>3 DEF IInv

LEMMA ProxyNewKeepsIInv ==
  ASSUME IInv, NEW p \in Proc, ProxyNew(p)
  PROVE  IInv'
BY DEF ProxyNew, Step, Refuse, Fail, server, IInv, TypeOK, RegionNamed,
       IdByRegistration, VersionCompared, RegionsAreExclusive, Live

LEMMA CheckVersionsKeepsIInv ==
  ASSUME IInv, NEW p \in Proc, CheckVersions(p)
  PROVE  IInv'
<1>1. TypeOK'
  BY DEF CheckVersions, Step, Refuse, server, IInv, TypeOK
<1>2. RegionNamed' /\ RegionsAreExclusive'
  BY DEF CheckVersions, server, IInv, RegionNamed, RegionsAreExclusive
<1>3. IdByRegistration' /\ VersionCompared'
  BY DEF CheckVersions, Step, server, IInv, TypeOK, IdByRegistration, VersionCompared, Live
<1> QED
  BY <1>1, <1>2, <1>3 DEF IInv

LEMMA CallRegisterKeepsIInv ==
  ASSUME IInv, NEW p \in Proc, CallRegister(p)
  PROVE  IInv'
<1>1. /\ pc[p] = "call"
      /\ \/ /\ pc' = [pc EXCEPT ![p] = "registered"]
            /\ vmId' = [vmId EXCEPT ![p] = IdOf[p]]
         \/ pc' = [pc EXCEPT ![p] = "initialized"] /\ vmId' = vmId
      /\ UNCHANGED << supported, names, cached, region >>
  BY DEF CallRegister, Step, Fail, SaveId
<1>2. /\ IdOf[p] \in Nat
      /\ sessions' \in {sessions, sessions \cup {IdOf[p]}}
      /\ \E why \in {NULL, "timeout", "call"} : refused' = [refused EXCEPT ![p] = why]
  BY RegisterAssumption DEF CallRegister, Refuse, Fail
<1>3. TypeOK'
  BY <1>1, <1>2 DEF IInv, TypeOK
<1>4. RegionNamed' /\ RegionsAreExclusive'
  BY <1>1 DEF IInv, RegionNamed, RegionsAreExclusive
<1>5. IdByRegistration'
  BY <1>1 DEF IInv, TypeOK, IdByRegistration, Live
<1>6. VersionCompared'
  BY <1>1 DEF IInv, TypeOK, VersionCompared, Live
<1> QED
  BY <1>3, <1>4, <1>5, <1>6 DEF IInv

LEMMA ConnectKeepsIInv ==
  ASSUME IInv, NEW p \in Proc, Connect(p)
  PROVE  IInv'
BY DEF Connect, Step, Refuse, Fail, server, IInv, TypeOK, RegionNamed,
       IdByRegistration, VersionCompared, RegionsAreExclusive, Live

LEMMA CreateRegionKeepsIInv ==
  ASSUME IInv, NEW p \in Proc, CreateRegion(p)
  PROVE  IInv'
<1>1. /\ pc[p] = "connected" /\ pc' = [pc EXCEPT ![p] = "connected"]
      /\ UNCHANGED << supported, sessions, cached, vmId >>
      /\ \/ /\ vmId[p] \notin names /\ names' = names \cup {vmId[p]}
            /\ region' \in {region, [region EXCEPT ![p] = vmId[p]]}
         \/ UNCHANGED << names, region >>
  BY DEF CreateRegion, ShmOpen, Step, Fail, server
<1>2. \E why \in {NULL, "ftruncate", "exists"} : refused' = [refused EXCEPT ![p] = why]
  BY DEF CreateRegion, Refuse, Fail
<1>3. pc' = pc
  BY <1>1 DEF IInv, TypeOK
<1>4. TypeOK'
  BY <1>1, <1>2, <1>3 DEF IInv, TypeOK
<1>5. vmId[p] = IdOf[p]
  BY <1>1 DEF IInv, IdByRegistration, Live
<1>6. RegionNamed'
  BY <1>1, <1>5 DEF IInv, TypeOK, RegionNamed
<1>7. RegionsAreExclusive'
  \* A new region has a name that was not there; those of the others were.
  BY <1>1 DEF IInv, TypeOK, RegionNamed, RegionsAreExclusive
<1>8. IdByRegistration' /\ VersionCompared'
  BY <1>1, <1>3 DEF IInv, IdByRegistration, VersionCompared, Live
<1> QED
  BY <1>4, <1>6, <1>7, <1>8 DEF IInv

LEMMA GoneKeepsIInv ==
  ASSUME IInv, NEW p \in Proc, Gone(p), sessions' \subseteq sessions
  PROVE  IInv'
BY DEF Gone, Refuse, server, IInv, TypeOK, RegionNamed,
       IdByRegistration, VersionCompared, RegionsAreExclusive, Live

LEMMA StepKeepsIInv ==
  ASSUME IInv, [Next]_vars
  PROVE  IInv'
<1>1. CASE UNCHANGED vars
  BY <1>1 DEF vars, IInv, TypeOK, RegionNamed, IdByRegistration, VersionCompared,
              RegionsAreExclusive, Live
<1>2. CASE ServerChanges
  BY <1>2, ServerKeepsIInv
<1>3. ASSUME NEW p \in Proc, ProcStep(p)
      PROVE  IInv'
  <2>1. CASE InitDisplayStruct(p) BY <2>1, InitDisplayStructKeepsIInv
  <2>2. CASE ProxyNew(p)          BY <2>2, ProxyNewKeepsIInv
  <2>3. CASE CheckVersions(p)     BY <2>3, CheckVersionsKeepsIInv
  <2>4. CASE CallRegister(p)      BY <2>4, CallRegisterKeepsIInv
  <2>5. CASE Connect(p)           BY <2>5, ConnectKeepsIInv
  <2>6. CASE CreateRegion(p)      BY <2>6, CreateRegionKeepsIInv
  <2>7. CASE Shutdown(p)          BY <2>7, GoneKeepsIInv DEF Shutdown
  <2>8. CASE Crash(p)             BY <2>8, GoneKeepsIInv DEF Crash
  <2> QED
    BY <1>3, <2>1, <2>2, <2>3, <2>4, <2>5, <2>6, <2>7, <2>8 DEF ProcStep
<1> QED
  BY <1>1, <1>2, <1>3 DEF Next, ProcStep

(***************************************************************************)
(* The invariant holds in every reachable state.                           *)
(***************************************************************************)
THEOREM Invariant == Spec => []IInv
<1>1. Init => IInv
  BY InitIInv
<1>2. IInv /\ [Next]_vars => IInv'
  BY StepKeepsIInv
<1> QED
  BY <1>1, <1>2, PTL DEF Spec

(***************************************************************************)
(* The variables keep their types, in whatever order backends start, fail, *)
(* crash and restart and the server comes, goes and changes its versions.  *)
(***************************************************************************)
THEOREM TypeCorrect == Spec => []TypeOK
<1>1. IInv => TypeOK
  BY DEF IInv
<1> QED
  BY <1>1, Invariant, PTL

(***************************************************************************)
(* No two backends ever map the same region (rdpmux.c:162), whatever ids   *)
(* they use and in whatever order they start, fail, crash and restart.     *)
(***************************************************************************)
THEOREM RegionsExclude == Spec => []RegionsAreExclusive
<1>1. IInv => RegionsAreExclusive
  BY DEF IInv
<1> QED
  BY <1>1, Invariant, PTL

(***************************************************************************)
(* A region is named by the id its backend registered (rdpmux.c:150,       *)
(* dbus.c:113), also when earlier registrations failed.                    *)
(***************************************************************************)
THEOREM RegionFollowsId == Spec => []RegionOfRegistered
<1>1. IInv => RegionOfRegistered
  BY DEF IInv, RegionNamed, IdByRegistration, RegionOfRegistered
<1> QED
  BY <1>1, Invariant, PTL

(***************************************************************************)
(* Only a backend whose version the server announced registers             *)
(* (dbus.c:51-104), although the announcement may be out of date by then.  *)
(***************************************************************************)
THEOREM VersionsMatch == Spec => []VersionWasAnnounced
<1>1. IInv => VersionWasAnnounced
  <2> SUFFICES ASSUME IInv, NEW p \in Proc, Live(p) \/ pc[p] = "call"
               PROVE  cached[p] # NULL
                      /\ \E i \in DOMAIN cached[p] : cached[p][i] = RDPMUX_PROTOCOL_VERSION
    BY DEF VersionWasAnnounced
  <2>1. cached[p] # NULL /\ Compatible(cached[p])
    BY DEF IInv, VersionCompared
  <2>2. cached[p] \in Seq(Nat)
    BY <2>1, RegisterAssumption DEF IInv, TypeOK
  <2>3. 1 \in DOMAIN cached[p]
    BY <2>1, <2>2 DEF Compatible
  <2> QED
    BY <2>1, <2>3 DEF Compatible
<1> QED
  BY <1>1, Invariant, PTL
=============================================================================
