--------------------------- MODULE SandboxNetwork ---------------------------
(***************************************************************************)
(* The DHCP isolation gate of sandbox runtimes: SandboxNetworkService      *)
(* (allocate, reserve_for_mac, verify_reserved, release), the sandbox part *)
(* of _provision_vm that calls it before the first boot, and the release   *)
(* at the end of the DELETE handler.  Kea, its clients and the guests are  *)
(* external.                                                               *)
(*                                                                         *)
(* A sandbox stands for its row, its VM, its MAC (generated for the job)   *)
(* and the reservation its job creates: a job creates one at most, so the  *)
(* sandbox names the reservation's uuid too.  The branch of                *)
(* reserve_for_mac that keeps a reservation of the same MAC is therefore   *)
(* never taken.  The addresses of the sandbox pool are 1..PoolSize; every  *)
(* address outside it is DYN.  Every HTTP call is a step of its own.       *)
(***************************************************************************)
EXTENDS Naturals, FiniteSets, FiniteSetsExt

CONSTANTS
    Sandboxes,
    PoolSize,           \* addresses in SERVER_MANAGER_SANDBOX_DHCP_RANGE
    StaticHosts,        \* pool addresses some host uses without a lease
    Protected,          \* pool addresses with a foreign reservation at first
    Restarts,           \* sandboxes are stopped and started again
    OrdinaryClients,    \* the pool lies in Kea's dynamic range
    SlowGuests,         \* a guest may need more than wait_for_ip's 420 s
    MaxFaults,          \* bound on failing HTTP calls
    MaxNetCrashes,         \* bound on restarts of the ARM process
    Nil, STATIC, ORDINARY, DYN

Pool == 1..PoolSize

ASSUME SandboxAssumption ==
    /\ PoolSize \in Nat \ {0} /\ MaxFaults \in Nat /\ MaxNetCrashes \in Nat
    /\ StaticHosts \subseteq Pool /\ Protected \subseteq Pool
    /\ {Restarts, OrdinaryClients, SlowGuests} \subseteq BOOLEAN
    /\ Nil \notin {STATIC, ORDINARY, DYN} /\ STATIC \notin {ORDINARY, DYN}
    /\ ORDINARY # DYN
    /\ Sandboxes \cap {Nil, STATIC, ORDINARY, DYN} = {}
    /\ Pool \cap {Nil, DYN} = {}

VARIABLES
    resv,       \* reservation model: the holder of each pool address
    applied,    \* the reservations the running Kea has loaded
    lease,      \* active leases of pool addresses
    vm,         \* VM of each sandbox
    addr,       \* address its guest uses
    status,     \* the row: job in flight, outcome, destroyed
    sandboxIp,  \* ownership_meta["sandbox_ip"], with the reservation's uuid
    ip,         \* ownership_meta["ip"], what the guest reported
    pc,         \* where the POST or DELETE of the sandbox is
    loc,        \* locals of that handler
    leaked,     \* sandboxes whose reservation ARM failed to delete
    robbed,     \* sandboxes whose reservation the handler of another one deleted
    shutOut,    \* sandboxes whose reserved address another client had leased
    faults, netCrashes

netVars == <<resv, applied, lease, vm, addr, status, sandboxIp, ip, pc, loc,
          leaked, robbed, shutOut, faults, netCrashes>>

Holder == Sandboxes \cup {Nil, STATIC}

JobSteps == {"reservations", "leases", "probe", "drop", "dropApply", "add",
             "addApply", "verify", "boot", "waitip", "hygiene"}
DeleteSteps == {"destroy", "lookup", "release", "releaseApply", "commit"}

Locals == [reserved: [Pool -> Holder], leased: SUBSET Pool, ip: Pool \cup {Nil},
           existing: Holder]

NetTypeOK ==
    /\ resv \in [Pool -> Holder] /\ applied \in [Pool -> Holder]
    /\ lease \in [Pool -> Sandboxes \cup {Nil, ORDINARY}]
    /\ vm \in [Sandboxes -> {"none", "stopped", "running", "gone"}]
    /\ addr \in [Sandboxes -> Pool \cup {Nil, DYN}]
    /\ status \in [Sandboxes -> {"NEW", "PROVISIONING", "READY", "FAILED",
                                 "DESTROYED"}]
    /\ sandboxIp \in [Sandboxes -> Pool \cup {Nil}]
    /\ ip \in [Sandboxes -> Pool \cup {Nil, DYN}]
    /\ pc \in [Sandboxes -> {"idle"} \cup JobSteps \cup DeleteSteps]
    /\ loc \in [Sandboxes -> Locals]
    /\ leaked \subseteq Sandboxes
    /\ robbed \subseteq Holder /\ shutOut \subseteq Sandboxes
    /\ faults \in 0..MaxFaults /\ netCrashes \in 0..MaxNetCrashes

NoLocals == [reserved |-> [i \in Pool |-> Nil], leased |-> {}, ip |-> Nil,
             existing |-> Nil]

NetInit ==
    /\ resv = [i \in Pool |-> IF i \in Protected THEN STATIC ELSE Nil]
    /\ applied = resv
    /\ lease = [i \in Pool |-> Nil]
    /\ vm = [s \in Sandboxes |-> "none"]
    /\ addr = [s \in Sandboxes |-> Nil]
    /\ status = [s \in Sandboxes |-> "NEW"]
    /\ sandboxIp = [s \in Sandboxes |-> Nil]
    /\ ip = [s \in Sandboxes |-> Nil]
    /\ pc = [s \in Sandboxes |-> "idle"]
    /\ loc = [s \in Sandboxes |-> NoLocals]
    /\ leaked = {} /\ robbed = {} /\ shutOut = {} /\ faults = 0 /\ netCrashes = 0

dhcp == <<resv, applied, lease>>
guests == <<vm, addr>>
rows == <<status, sandboxIp, ip>>
bounds == <<faults, netCrashes>>
losses == <<robbed, shutOut>>

Goto(s, step) == pc' = [pc EXCEPT ![s] = step]

---------------------------------------------------------------------------
(* The provisioning job of a sandbox, from the gate on *)

\* The clone is configured and stopped; the job comes to the gate.
EnterGate(s) ==
    /\ status[s] = "NEW"
    /\ status' = [status EXCEPT ![s] = "PROVISIONING"]
    /\ vm' = [vm EXCEPT ![s] = "stopped"]
    /\ Goto(s, "reservations")
    /\ UNCHANGED <<dhcp, addr, sandboxIp, ip, loc, leaked, losses, bounds>>

ReadReservations(s) ==
    /\ pc[s] = "reservations"
    /\ loc' = [loc EXCEPT ![s].reserved = resv]
    /\ Goto(s, "leases")
    /\ UNCHANGED <<dhcp, guests, rows, leaked, losses, bounds>>

ReadLeases(s) ==
    /\ pc[s] = "leases"
    /\ loc' = [loc EXCEPT ![s].leased = {i \in Pool : lease[i] # Nil}]
    /\ Goto(s, "probe")
    /\ UNCHANGED <<dhcp, guests, rows, leaked, losses, bounds>>

\* What an ARP probe finds: hosts with a static address, running guests.
Alive == StaticHosts \cup {addr[s] : s \in {x \in Sandboxes : vm[x] = "running"}}

\* The addresses allocate does not skip before it probes.
Candidates(reserved, leased) == {i \in Pool : reserved[i] # STATIC} \ leased

\* The addresses allocate probes: it computes alive once, at the first
\* candidate, for the whole pool if SM holds that one, else for that one.
Probed(reserved, leased) ==
    LET first == Min(Candidates(reserved, leased))
    IN  IF reserved[first] = Nil THEN {first}
        ELSE {i \in Pool : reserved[i] # STATIC}

\* The addresses allocate would return; it returns the lowest.
Free(reserved, leased) ==
    IF Candidates(reserved, leased) = {} THEN {}
    ELSE Candidates(reserved, leased) \ (Probed(reserved, leased) \cap Alive)

\* The rest of allocate: the probe and the choice.
Allocate(s) ==
    LET free == Free(loc[s].reserved, loc[s].leased) IN
    /\ pc[s] = "probe" /\ free # {}
    /\ LET i == Min(free) IN
         /\ loc' = [loc EXCEPT ![s].ip = i,
                               ![s].existing = loc[s].reserved[i]]
         /\ Goto(s, IF loc[s].reserved[i] = Nil THEN "add" ELSE "drop")
    /\ UNCHANGED <<dhcp, guests, rows, leaked, losses, bounds>>

\* reserve_for_mac deletes the reservation allocate found, by its uuid.
DropExisting(s) ==
    /\ pc[s] = "drop" /\ resv[loc[s].ip] = loc[s].existing
    /\ resv' = [resv EXCEPT ![loc[s].ip] = Nil]
    /\ robbed' = robbed \cup {loc[s].existing}
    /\ Goto(s, "dropApply")
    /\ UNCHANGED <<applied, lease, guests, rows, loc, leaked, shutOut, bounds>>

\* reconfigure: the running Kea loads the reservation model.
Reconfigure(s, from, to) ==
    /\ pc[s] = from
    /\ applied' = resv
    /\ Goto(s, to)
    /\ UNCHANGED <<resv, lease, guests, rows, loc, leaked, losses, bounds>>

\* Fault: the reservation is made, and the running Kea does not load it.
AddUnapplied(s) ==
    /\ pc[s] = "add" /\ resv[loc[s].ip] = Nil
    /\ resv' = [resv EXCEPT ![loc[s].ip] = s]
    /\ Goto(s, "verify")
    /\ UNCHANGED <<applied, lease, guests, rows, loc, leaked, losses, bounds>>

\* add_reservation; an address has one reservation at most.
AddReservation(s) ==
    /\ pc[s] = "add" /\ resv[loc[s].ip] = Nil
    /\ resv' = [resv EXCEPT ![loc[s].ip] = s]
    /\ Goto(s, "addApply")
    /\ UNCHANGED <<applied, lease, guests, rows, loc, leaked, losses, bounds>>

\* verify_reserved asks for a reservation of the address, whoever holds it.
VerifyReserved(s) ==
    /\ pc[s] = "verify" /\ resv[loc[s].ip] # Nil
    /\ sandboxIp' = [sandboxIp EXCEPT ![s] = loc[s].ip]
    /\ Goto(s, "boot")
    /\ UNCHANGED <<dhcp, guests, status, ip, loc, leaked, losses, bounds>>

Boot(s) ==
    /\ pc[s] = "boot"
    /\ vm' = [vm EXCEPT ![s] = "running"]
    /\ Goto(s, "waitip")
    /\ UNCHANGED <<dhcp, addr, rows, loc, leaked, losses, bounds>>

WaitForIp(s) ==
    /\ pc[s] = "waitip" /\ addr[s] # Nil
    /\ ip' = [ip EXCEPT ![s] = addr[s]]
    /\ Goto(s, "hygiene")
    /\ UNCHANGED <<dhcp, guests, status, sandboxIp, loc, leaked, losses, bounds>>

\* The hygiene gate's address check.  Addresses outside the pool are taken
\* to differ.
OwnedByOther(s) == ip[s] # DYN /\ \E o \in Sandboxes \ {s} : ip[o] = ip[s]

HygieneAccepts(s) ==
    /\ pc[s] = "hygiene" /\ ~OwnedByOther(s)
    /\ status' = [status EXCEPT ![s] = "READY"]
    /\ Goto(s, "idle")
    /\ UNCHANGED <<dhcp, guests, sandboxIp, ip, loc, leaked, losses, bounds>>

\* The ends run_job records as FAILED.  The VM is left as it is.
JobFails(s) ==
    /\ \/ pc[s] = "probe" /\ Free(loc[s].reserved, loc[s].leased) = {}
       \/ pc[s] = "drop" /\ resv[loc[s].ip] # loc[s].existing
       \/ pc[s] = "add" /\ resv[loc[s].ip] # Nil
       \/ pc[s] = "verify" /\ resv[loc[s].ip] = Nil
       \/ SlowGuests /\ pc[s] = "waitip" /\ addr[s] = Nil
       \/ pc[s] = "hygiene" /\ OwnedByOther(s)
    /\ status' = [status EXCEPT ![s] = "FAILED"]
    /\ Goto(s, "idle")
    /\ UNCHANGED <<dhcp, guests, sandboxIp, ip, loc, leaked, losses, bounds>>

\* A call to OPNsense or Proxmox fails.
JobCallFails(s) ==
    /\ faults < MaxFaults /\ pc[s] \in JobSteps \ {"waitip", "hygiene"}
    /\ faults' = faults + 1
    /\ status' = [status EXCEPT ![s] = "FAILED"]
    /\ Goto(s, "idle")
    /\ UNCHANGED <<dhcp, guests, sandboxIp, ip, loc, leaked, losses, netCrashes>>

---------------------------------------------------------------------------
(* DELETE /agent-runtimes/{id} *)

\* The row of a finished job has a VM and the VM's marker names the row.
DeleteSandbox(s) ==
    /\ pc[s] = "idle" /\ status[s] = "READY"
    /\ vm[s] \in {"running", "stopped"}
    /\ Goto(s, "destroy")
    /\ UNCHANGED <<dhcp, guests, rows, loc, leaked, losses, bounds>>

DestroyVm(s) ==
    /\ pc[s] = "destroy"
    /\ vm' = [vm EXCEPT ![s] = "gone"]
    /\ addr' = [addr EXCEPT ![s] = Nil]
    /\ Goto(s, "lookup")
    /\ UNCHANGED <<dhcp, rows, loc, leaked, losses, bounds>>

\* Fault: whatever reservation the address has is released.
ReleasesAny(i) == resv[i] # Nil

\* release deletes what carries SM's tag.
Releases(i) == resv[i] \notin {Nil, STATIC}

\* release looks the reservation of the recorded address up.
ReleaseLookup(s) ==
    /\ pc[s] = "lookup"
    /\ IF Releases(sandboxIp[s])
         THEN /\ loc' = [loc EXCEPT ![s].existing = resv[sandboxIp[s]]]
              /\ Goto(s, "release")
         ELSE Goto(s, "commit") /\ UNCHANGED loc
    /\ UNCHANGED <<dhcp, guests, rows, leaked, losses, bounds>>

\* Fault: the deletion is left out.
ReleaseNothing(s) ==
    /\ pc[s] = "release"
    /\ Goto(s, "releaseApply")
    /\ UNCHANGED <<dhcp, guests, rows, loc, leaked, losses, bounds>>

\* delete_reservation by uuid; an unknown uuid is an audited failure.
Release(s) ==
    /\ pc[s] = "release"
    /\ IF resv[sandboxIp[s]] = loc[s].existing
         THEN /\ resv' = [resv EXCEPT ![sandboxIp[s]] = Nil]
              /\ robbed' = robbed \cup ({loc[s].existing} \ {s})
              /\ Goto(s, "releaseApply")
         ELSE Goto(s, "commit") /\ UNCHANGED <<resv, robbed>>
    /\ UNCHANGED <<applied, lease, guests, rows, loc, leaked, shutOut, bounds>>

\* A failing call of the release is audited and does not stop the DELETE.
ReleaseCallFails(s) ==
    /\ faults < MaxFaults
    /\ pc[s] \in {"lookup", "release", "releaseApply"}
    /\ faults' = faults + 1
    /\ leaked' = leaked \cup {s}
    /\ Goto(s, "commit")
    /\ UNCHANGED <<dhcp, guests, rows, loc, losses, netCrashes>>

CommitDelete(s) ==
    /\ pc[s] = "commit"
    /\ status' = [status EXCEPT ![s] = "DESTROYED"]
    /\ Goto(s, "idle")
    /\ UNCHANGED <<dhcp, guests, sandboxIp, ip, loc, leaked, losses, bounds>>

\* ARM restarts: the handlers in flight are lost, the rows stay.
NetCrash ==
    /\ netCrashes < MaxNetCrashes /\ \E s \in Sandboxes : pc[s] # "idle"
    /\ netCrashes' = netCrashes + 1
    /\ pc' = [s \in Sandboxes |-> "idle"]
    /\ UNCHANGED <<dhcp, guests, rows, loc, leaked, losses, faults>>

---------------------------------------------------------------------------
(* Kea, its clients, the guests and the operators *)

\* A booted guest asks for an address: the one reserved for its MAC unless
\* another client has it, else one of the dynamic range.
Dhcp(s) ==
    /\ vm[s] = "running" /\ addr[s] = Nil
    /\ LET own == {i \in Pool : applied[i] = s /\ lease[i] \in {Nil, s}} IN
         IF own = {}
         THEN /\ addr' = [addr EXCEPT ![s] = DYN] /\ UNCHANGED lease
              /\ shutOut' = shutOut \cup {x \in {s} : \E i \in Pool : applied[i] = x}
         ELSE \E i \in own : /\ addr' = [addr EXCEPT ![s] = i]
                             /\ lease' = [lease EXCEPT ![i] = s]
                             /\ UNCHANGED shutOut
    /\ UNCHANGED <<resv, applied, vm, rows, pc, loc, leaked, robbed, bounds>>

\* Kea refuses to renew a lease of an address reserved for someone else.
RenewalRefused(s) ==
    /\ vm[s] = "running" /\ addr[s] \in Pool
    /\ applied[addr[s]] \notin {s, Nil}
    /\ lease' = [lease EXCEPT ![addr[s]] = Nil]
    /\ addr' = [addr EXCEPT ![s] = Nil]
    /\ UNCHANGED <<resv, applied, vm, rows, pc, loc, leaked, losses, bounds>>

OrdinaryLease(i) ==
    /\ OrdinaryClients /\ applied[i] = Nil /\ lease[i] = Nil
    /\ lease' = [lease EXCEPT ![i] = ORDINARY]
    /\ UNCHANGED <<resv, applied, guests, rows, pc, loc, leaked, losses, bounds>>

\* A lease ends once its client is off.
LeaseEnds(i) ==
    /\ lease[i] # Nil /\ (lease[i] # ORDINARY => addr[lease[i]] # i)
    /\ lease' = [lease EXCEPT ![i] = Nil]
    /\ UNCHANGED <<resv, applied, guests, rows, pc, loc, leaked, losses, bounds>>

\* The reconciler, or an operator, stops a sandbox and starts it again.
StopSandbox(s) ==
    /\ Restarts /\ status[s] = "READY" /\ vm[s] = "running"
    /\ vm' = [vm EXCEPT ![s] = "stopped"]
    /\ addr' = [addr EXCEPT ![s] = Nil]
    /\ UNCHANGED <<dhcp, rows, pc, loc, leaked, losses, bounds>>

StartSandbox(s) ==
    /\ Restarts /\ status[s] = "READY" /\ vm[s] = "stopped"
    /\ vm' = [vm EXCEPT ![s] = "running"]
    /\ UNCHANGED <<dhcp, addr, rows, pc, loc, leaked, losses, bounds>>

\* The VM of a failed job is disposed of by hand.
DisposeFailed(s) ==
    /\ status[s] = "FAILED" /\ vm[s] # "gone"
    /\ vm' = [vm EXCEPT ![s] = "gone"]
    /\ addr' = [addr EXCEPT ![s] = Nil]
    /\ UNCHANGED <<dhcp, rows, pc, loc, leaked, losses, bounds>>

\* An operator adds a reservation of his own.
AddForeign(i) ==
    /\ resv[i] = Nil
    /\ resv' = [resv EXCEPT ![i] = STATIC]
    /\ applied' = resv'
    /\ UNCHANGED <<lease, guests, rows, pc, loc, leaked, losses, bounds>>

---------------------------------------------------------------------------
JobStep(s) ==
    \/ EnterGate(s) \/ ReadReservations(s) \/ ReadLeases(s) \/ Allocate(s)
    \/ DropExisting(s) \/ Reconfigure(s, "dropApply", "add")
    \/ AddReservation(s) \/ Reconfigure(s, "addApply", "verify")
    \/ VerifyReserved(s) \/ Boot(s) \/ WaitForIp(s) \/ HygieneAccepts(s)
    \/ JobFails(s) \/ JobCallFails(s)

DeleteStep(s) ==
    \/ DeleteSandbox(s) \/ DestroyVm(s) \/ ReleaseLookup(s) \/ Release(s)
    \/ Reconfigure(s, "releaseApply", "commit")
    \/ ReleaseCallFails(s) \/ CommitDelete(s)

Environment ==
    \/ \E s \in Sandboxes : \/ Dhcp(s) \/ RenewalRefused(s) \/ StopSandbox(s)
                            \/ StartSandbox(s) \/ DisposeFailed(s)
    \/ \E i \in Pool : OrdinaryLease(i) \/ LeaseEnds(i) \/ AddForeign(i)

NetNext ==
    \/ \E s \in Sandboxes : JobStep(s) \/ DeleteStep(s)
    \/ NetCrash \/ Environment

NetSpec == NetInit /\ [][NetNext]_netVars

---------------------------------------------------------------------------
(* Properties *)

\* A foreign reservation is never deleted and never replaced, whatever
\* handlers, netCrashes and failing calls interleave: allocate skips it, release
\* refuses it, and both delete by the uuid of what they looked up.
ForeignKept ==
    [][\A i \in DOMAIN resv : resv[i] = STATIC => resv'[i] = STATIC]_netVars

\* Once a sandbox is destroyed its reservation is gone, unless one of the
\* calls of the release failed and was audited (the end of the DELETE
\* handler, release).
DestroyedIsReleased ==
    \A s \in Sandboxes :
        status[s] = "DESTROYED" /\ s \notin leaked
            => \A i \in DOMAIN resv : resv[i] # s

\* A READY sandbox that runs uses the address it reserved, and the running Kea keeps
\* that address for it, however handlers overlap or are lost, guests are slow or
\* restarted, and ordinary clients use the pool (the order of the gate: reserve,
\* apply, verify, boot).  Two things take it away, and nothing else: the handler of
\* another sandbox that deletes the reservation (reserve_for_mac or release, by what
\* it looked up at the address), and a lease another client still had when the guest
\* asked.
ReadyIsIsolated ==
    \A s \in Sandboxes \ (robbed \cup shutOut) :
        status[s] = "READY" /\ vm[s] = "running" /\ addr[s] # Nil
          /\ pc[s] = "idle"
            => addr[s] = sandboxIp[s] /\ applied[addr[s]] = s

\* "a sandbox ALWAYS receives its pre-reserved sandbox-pool address" (the header of
\* sandbox_network.py): what a READY sandbox uses is what its row says was reserved.
AlwaysReserved ==
    \A s \in Sandboxes :
        status[s] = "READY" /\ vm[s] = "running" /\ addr[s] # Nil
            => addr[s] = sandboxIp[s]
=============================================================================
