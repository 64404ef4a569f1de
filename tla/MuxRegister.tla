---------------------------- MODULE MuxRegister ----------------------------
(***************************************************************************)
(* How backends come up: the display struct, the registration with the     *)
(* server over D-Bus, the ZeroMQ connection, and the creation of the       *)
(* shared region by the first mux_display_switch.  Several processes start,*)
(* fail, crash, shut down and start again, on a server that comes and goes *)
(* and changes the protocol versions it supports.                          *)
(*                                                                         *)
(* D-Bus calls block; between two of them, and between two calls of the    *)
(* backend, everything else may happen.  A backend stops at a call that    *)
(* fails and may repeat it.                                                *)
(***************************************************************************)
EXTENDS Naturals, Sequences

CONSTANTS
  Proc,          \* backends
  IdOf,          \* the VM id each registers with
  VersionLists,  \* values of SupportedProtocolVersions
  NULL,
  Failures       \* what may go wrong in a process, see FailureNames

RDPMUX_PROTOCOL_VERSION == 3

FailureNames ==
  {"uuid", "bus", "socket", "ftruncate",  \* a call fails
   "timeout",                             \* an answer does not come in time
   "crash"}                               \* a process dies

ASSUME RegisterAssumption ==
  /\ IdOf \in [Proc -> Nat] /\ NULL \notin Nat
  /\ VersionLists \subseteq Seq(Nat) /\ NULL \notin VersionLists
  /\ Failures \subseteq FailureNames

VARIABLES
  supported,  \* the property at the server, NULL while the service is absent
  sessions,   \* the server: the ids it has set up a socket for
  names,      \* regions in /dev/shm, by id
  pc,         \* how far each process is
  cached,     \* the property in its proxy
  vmId,       \* display->vm_id
  region,     \* the region it has mapped, NULL if shmem_fd is -1
  refused     \* why its last call failed, NULL if it did not

vars == << supported, sessions, names, pc, cached, vmId, region, refused >>
server == << supported, sessions >>

Init ==
  /\ supported \in VersionLists \cup {NULL}
  /\ sessions = {} /\ names = {}
  /\ pc = [p \in Proc |-> "down"] /\ cached = [p \in Proc |-> NULL]
  /\ vmId = [p \in Proc |-> 0] /\ region = [p \in Proc |-> NULL]
  /\ refused = [p \in Proc |-> NULL]

Step(p, from, to) == pc[p] = from /\ pc' = [pc EXCEPT ![p] = to]
Refuse(p, why) == refused' = [refused EXCEPT ![p] = why]
Fail(p, why, from, to) == why \in Failures /\ Step(p, from, to) /\ Refuse(p, why)

\* mux_init_display_struct; a UUID of the wrong length gives no struct.
InitDisplayStruct(p) ==
  /\ \/ Step(p, "down", "initialized") /\ Refuse(p, NULL)
     \/ Fail(p, "uuid", "down", "down")
  /\ vmId' = [vmId EXCEPT ![p] = 0] /\ region' = [region EXCEPT ![p] = NULL]
  /\ UNCHANGED << server, names, cached >>

\* mux_get_socket_path first makes a proxy, which reads the property once; it
\* has none when nobody owns the name, and there is none without a bus.
ProxyNew(p) ==
  /\ \/ Step(p, "initialized", "proxy") /\ Refuse(p, NULL)
        /\ cached' = [cached EXCEPT ![p] = supported]
     \/ Fail(p, "bus", "initialized", "initialized") /\ UNCHANGED cached
  /\ UNCHANGED << server, names, vmId, region >>

\* wrong: any list of versions is accepted
AnyVersion(list) == list # << >>

\* Only the first element of the list is looked at; there must be one.
Compatible(list) == list # << >> /\ list[1] = RDPMUX_PROTOCOL_VERSION

CheckVersions(p) ==
  /\ \/ /\ cached[p] # NULL /\ Compatible(cached[p])
        /\ Step(p, "proxy", "call") /\ Refuse(p, NULL)
     \/ /\ cached[p] \in {NULL, << >>}
        /\ Step(p, "proxy", "initialized") /\ Refuse(p, "service")
     \/ /\ cached[p] \notin {NULL, << >>} /\ ~Compatible(cached[p])
        /\ Step(p, "proxy", "initialized") /\ Refuse(p, "version")
  /\ UNCHANGED << server, names, cached, vmId, region >>

\* wrong: the id is kept although the call failed
KeepId(p, ok) == vmId' = [vmId EXCEPT ![p] = IdOf[p]]

\* wrong: a failed call resets the id to no id
ClearId(p, ok) == vmId' = [vmId EXCEPT ![p] = IF ok THEN IdOf[p] ELSE NULL]

SaveId(p, ok) == vmId' = IF ok THEN [vmId EXCEPT ![p] = IdOf[p]] ELSE vmId

\* Register, called synchronously.  It fails without a service, if the server
\* refuses, or when the answer does not come in time: then there is a session.
CallRegister(p) ==
  /\ \/ /\ supported # NULL
        /\ sessions' = sessions \cup {IdOf[p]}
        /\ \/ Step(p, "call", "registered") /\ Refuse(p, NULL) /\ SaveId(p, TRUE)
           \/ Fail(p, "timeout", "call", "initialized") /\ SaveId(p, FALSE)
     \/ /\ Step(p, "call", "initialized") /\ Refuse(p, "call") /\ SaveId(p, FALSE)
        /\ UNCHANGED sessions
  /\ UNCHANGED << supported, names, cached, region >>

\* mux_connect; the socket or the poller may not be had.
Connect(p) ==
  /\ \/ Step(p, "registered", "connected") /\ Refuse(p, NULL)
     \/ Fail(p, "socket", "registered", "registered")
  /\ UNCHANGED << server, names, cached, vmId, region >>

\* wrong: an existing region is opened
OpenAny(n) == TRUE

\* shm_open with O_CREAT | O_EXCL.
ShmOpen(n) == n \notin names

\* The first mux_display_switch creates the region named after vm_id.  Nothing
\* ever unlinks it, not even the failure to resize it.
CreateRegion(p) ==
  /\ Step(p, "connected", "connected") /\ region[p] = NULL
  /\ \/ /\ ShmOpen(vmId[p])
        /\ names' = names \cup {vmId[p]}
        /\ \/ region' = [region EXCEPT ![p] = vmId[p]] /\ Refuse(p, NULL)
           \/ Fail(p, "ftruncate", "connected", "connected") /\ UNCHANGED region
     \/ /\ ~ShmOpen(vmId[p])
        /\ Refuse(p, "exists") /\ UNCHANGED << names, region >>
  /\ UNCHANGED << server, cached, vmId >>

\* The process ends: mux_cleanup and the shutdown message, which ends the
\* session, or a crash.  The mapping goes with the process, the name stays.
Gone(p) ==
  /\ pc' = [pc EXCEPT ![p] = "down"]
  /\ region' = [region EXCEPT ![p] = NULL]
  /\ Refuse(p, NULL)
  /\ UNCHANGED << supported, names, cached, vmId >>

Shutdown(p) ==
  /\ pc[p] = "connected" /\ Gone(p)
  /\ sessions' = sessions \ {vmId[p]}

Crash(p) ==
  /\ "crash" \in Failures /\ pc[p] # "down" /\ Gone(p)
  /\ UNCHANGED sessions

\* The service starts, stops (without its sessions) or announces other versions.
ServerChanges ==
  /\ supported' \in VersionLists \cup {NULL}
  /\ sessions' = IF supported' = NULL THEN {} ELSE sessions
  /\ UNCHANGED << names, pc, cached, vmId, region, refused >>

Next ==
  \/ ServerChanges
  \/ \E p \in Proc : \/ InitDisplayStruct(p) \/ ProxyNew(p) \/ CheckVersions(p)
                     \/ CallRegister(p) \/ Connect(p) \/ CreateRegion(p)
                     \/ Shutdown(p) \/ Crash(p)

Spec == Init /\ [][Next]_vars

-----------------------------------------------------------------------------
(* Properties                                                              *)

Live(p) == pc[p] \in {"registered", "connected"}

TypeOK ==
  /\ supported \in VersionLists \cup {NULL} /\ sessions \subseteq Nat
  /\ names \subseteq Nat
  /\ pc \in [Proc -> {"down", "initialized", "proxy", "call", "registered", "connected"}]
  /\ cached \in [Proc -> VersionLists \cup {NULL}]
  /\ vmId \in [Proc -> Nat] /\ region \in [Proc -> Nat \cup {NULL}]
  /\ refused \in [Proc -> {NULL, "uuid", "bus", "service", "version", "timeout", "call",
                            "socket", "exists", "ftruncate"}]

\* Two backends never share a region, not even when they use the same id, or
\* one starts after the other has crashed: the frames of one VM never show up
\* in the region of another.
RegionsAreExclusive ==
  \A p, q \in Proc : p # q /\ region[p] # NULL => region[p] # region[q]

\* A region is named by the id its backend is registered with (the server opens
\* it by that id), and every one ever created still exists.
RegionOfRegistered ==
  \A p \in Proc : /\ region[p] # NULL => region[p] = IdOf[p] /\ region[p] \in names
                  /\ Live(p) => vmId[p] = IdOf[p]
                  /\ pc[p] = "initialized" => vmId[p] = 0

\* A backend that got a socket path speaks a version that the server announced
\* when the proxy was made, whatever the server has announced since.
VersionWasAnnounced ==
  \A p \in Proc : Live(p) \/ pc[p] = "call" =>
    cached[p] # NULL /\ \E i \in DOMAIN cached[p] : cached[p][i] = RDPMUX_PROTOCOL_VERSION
=============================================================================
