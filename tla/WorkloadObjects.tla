--------------------------- MODULE WorkloadObjects ---------------------------
(***************************************************************************)
(* The objects of the workload reconciler (internal/workload/workload.go), *)
(* with what CanaryReconciler leaves out of them: labels and selectors,    *)
(* ports, who owns an object, and the other parties who write objects of   *)
(* the same names: the user, and the garbage collector.                    *)
(*                                                                         *)
(* The three objects are named by what they are: the canary "deployment",  *)
(* the "stable" Service and the "canary" Service.  A call reads an object, *)
(* and then creates or updates it; an Update of anything but the version   *)
(* read is refused.  Reads come from a cache, but one that lags behind the *)
(* pass's own writes only makes the write that follows be refused, as a    *)
(* call that fails.                                                        *)
(***************************************************************************)
EXTENDS Integers, Sequences

CONSTANTS
    Targets,     \* what the target Deployment can be: pod labels, matchLabels
    Ports,       \* what spec.service can say
    MaxCanaries, \* bound: Canaries created, one after the other
    MaxEdits,    \* bound: what the user does to the objects and the target
    MaxFailures  \* bound: passes cut short

\* The label that tells canary pods from those of the target.
Rev == "kanary.io/revision=canary"

\* A target without matchLabels selects by matchExpressions alone.
TargetRecords == [pods: SUBSET STRING, match: SUBSET STRING]

\* The schema looks at the port and at no more: targetPort is any string.  It is
\* empty, a number, the name of a port, or another text that Atoi refuses, a
\* number of more than 64 bits included.  A number is above * 2^32 + low, as
\* TLC's own integers have 32 bits.
PortNumbers == 1..65535
Int32 == {i \in Int : -2147483647 - 1 <= i /\ i <= 2147483647}
TargetPorts == [text: {"", "number", "name", "other"}, above: Int, low: Int32]
PortRecords == [port: PortNumbers, targetPort: TargetPorts]

ASSUME WorkloadAssumption ==
    /\ Ports \subseteq PortRecords
    /\ \A t \in Targets : t.match \subseteq t.pods /\ Rev \notin t.pods
    /\ MaxCanaries \in Nat /\ MaxEdits \in Nat /\ MaxFailures \in Nat

VARIABLES
    objects,  \* the three objects on the server
    canary,   \* the Canary: its uid, 0 without one, and spec.service
    target,   \* the target Deployment
    ask,      \* what the reconciler wants of the workload
    pc,       \* the call the pass makes next: what it does, and to which object
    spec,     \* the pass's copy of the Canary
    stable,   \* the pass's copy of the target
    got,      \* the object as the pass read it
    fresh,    \* nobody has written that object since
    created,  \* Canaries created so far
    edits,    \* what the user did so far
    failures  \* passes cut short so far

world  == <<objects, canary, target>>
pass   == <<pc, spec, stable, got, fresh>>
bounds == <<created, edits, failures>>
vars   == <<world, ask, pass, bounds>>

Names == {"deployment", "stable", "canary"}
Services == {"stable", "canary"}

\* owner is the uid of the Canary in the controller reference, 0 in an object of
\* the user; managed is the label kanary.io/managed=true.
Absent == [there |-> FALSE, owner |-> 0, managed |-> FALSE, selector |-> {},
           pods |-> {}, ports |-> <<>>]

Unset == [text |-> "", above |-> 0, low |-> 0]
NoCanary == [uid |-> 0, service |-> [port |-> 1, targetPort |-> Unset]]
NoTarget == [pods |-> {}, match |-> {}]

Idle == <<"idle", "">>

Init ==
    /\ objects = [n \in Names |-> Absent]
    /\ canary = NoCanary
    /\ target \in Targets
    /\ ask = "rest"
    /\ pc = Idle /\ spec = NoCanary /\ stable = NoTarget
    /\ got = Absent /\ fresh = FALSE
    /\ created = 0 /\ edits = 0 /\ failures = 0

-----------------------------------------------------------------------------
(* The builders                                                            *)

\* intstr.IntOrString, and what makes one.
IntOrString == [type: {"int", "string"}, int: Int32, str: {"", "name", "other"}]

FromInt32(i) == [type |-> "int", int |-> i, str |-> ""]
FromString(text) == [type |-> "string", int |-> 0, str |-> text]

\* (Mutant: an error of Atoi is not looked at.)
targetPortNumber(s, fallback) ==
    IF s.text = "" THEN FromInt32(fallback) ELSE FromInt32(s.low)

\* The conversion to int32 keeps the low bits of a number.
targetPort(s, fallback) ==
    IF s.text = "" THEN FromInt32(fallback)
    ELSE IF s.text = "number" THEN FromInt32(s.low)
    ELSE FromString(s.text)

servicePorts(c) ==
    <<c.service.port, targetPort(c.service.targetPort, c.service.port)>>

\* (Mutant: the selector is extended, the template is not.)
buildUnlabelledDeployment(c, t) ==
    [there |-> TRUE, owner |-> c.uid, managed |-> TRUE,
     selector |-> t.match \cup {Rev}, pods |-> t.pods, ports |-> <<>>]

buildCanaryDeployment(c, t) ==
    [there |-> TRUE, owner |-> c.uid, managed |-> TRUE,
     selector |-> t.match \cup {Rev}, pods |-> t.pods \cup {Rev},
     ports |-> <<>>]

\* matchLabels as they are, and no more.
buildStableService(c, t) ==
    [there |-> TRUE, owner |-> c.uid, managed |-> TRUE, selector |-> t.match,
     pods |-> {}, ports |-> servicePorts(c)]

\* (Mutant: without a controller reference.)
buildOwnerlessService(c, t) ==
    [there |-> TRUE, owner |-> 0, managed |-> TRUE,
     selector |-> t.match \cup {Rev}, pods |-> {}, ports |-> servicePorts(c)]

buildCanaryService(c, t) ==
    [there |-> TRUE, owner |-> c.uid, managed |-> TRUE,
     selector |-> t.match \cup {Rev}, pods |-> {}, ports |-> servicePorts(c)]

Wanted(n, c, t) ==
    CASE n = "deployment" -> buildCanaryDeployment(c, t)
      [] n = "stable"     -> buildStableService(c, t)
      [] n = "canary"     -> buildCanaryService(c, t)

\* The builder adds its label to a clone of matchLabels, which for a target
\* without any is a nil map: it panics.
Panics(n, t) == n \in {"deployment", "canary"} /\ t.match = {}

\* (Mutant: a canary Service keeps the selector it was created with.)
UpdatedPorts(n, old, want) ==
    IF n = "deployment"
    THEN [old EXCEPT !.selector = want.selector, !.pods = want.pods,
                     !.managed = TRUE]
    ELSE [old EXCEPT !.ports = want.ports]

\* What an Update puts into the object read: of a Deployment the spec and the
\* labels, of the stable Service the ports, of the canary Service the ports and
\* the selector; of none the owner.
Updated(n, old, want) ==
    CASE n = "deployment" -> [old EXCEPT !.selector = want.selector,
                                         !.pods = want.pods, !.managed = TRUE]
      [] n = "stable"     -> [old EXCEPT !.ports = want.ports]
      [] n = "canary"     -> [old EXCEPT !.ports = want.ports,
                                         !.selector = want.selector]

-----------------------------------------------------------------------------
(* A pass                                                                  *)

Return ==
    /\ pc' = Idle /\ spec' = NoCanary /\ stable' = NoTarget
    /\ got' = Absent /\ fresh' = FALSE

\* The reconciler decides, by the phase it is in.
Ask(a) ==
    /\ pc = Idle
    /\ canary.uid # 0
    /\ a # ask
    /\ ask' = a
    /\ UNCHANGED <<world, pass, bounds>>

Begin ==
    /\ pc = Idle
    /\ canary.uid # 0
    /\ ask # "rest"
    /\ pc' = IF ask = "ensure" THEN <<"get", "deployment">>
             ELSE <<"delete", "deployment">>
    /\ spec' = canary
    /\ stable' = target
    /\ UNCHANGED <<world, ask, got, fresh, bounds>>

\* EnsureCanaryDeployment, then the two halves of EnsureServices.
Proceed ==
    CASE pc[2] = "deployment" -> /\ pc' = <<"get", "stable">>
                                 /\ got' = Absent /\ fresh' = FALSE
                                 /\ UNCHANGED <<spec, stable>>
      [] pc[2] = "stable"     -> /\ pc' = <<"get", "canary">>
                                 /\ got' = Absent /\ fresh' = FALSE
                                 /\ UNCHANGED <<spec, stable>>
      [] pc[2] = "canary"     -> Return

Get(n) ==
    /\ pc = <<"get", n>>
    /\ ~Panics(n, stable)
    /\ pc' = <<"write", n>>
    /\ got' = objects[n]
    /\ fresh' = TRUE
    /\ UNCHANGED <<world, ask, spec, stable, bounds>>

Panic(n) ==
    /\ pc = <<"get", n>>
    /\ Panics(n, stable)
    /\ Return
    /\ UNCHANGED <<world, ask, bounds>>

\* (Mutant: every Service found is taken for one of Kanary's.)
LeavesNone(n) == FALSE

\* A stable Service without the label is somebody else's.
Leaves(n) == n = "stable" /\ got.there /\ ~got.managed

Leave(n) ==
    /\ pc = <<"write", n>>
    /\ Leaves(n)
    /\ Proceed
    /\ UNCHANGED <<world, ask, bounds>>

\* The object a call creates, or updates what it read to.
Sent(n) ==
    LET want == Wanted(n, spec, stable)
    IN  IF got.there THEN Updated(n, got, want) ELSE want

\* The API server fills in the port of a Service for a targetPort of 0, ...
Defaulted(ports) ==
    IF ports[2] \in {FromInt32(0), FromString("")}
    THEN <<ports[1], FromInt32(ports[1])>> ELSE ports

Stored(o) == IF o.ports = <<>> THEN o ELSE [o EXCEPT !.ports = Defaulted(@)]

\* ... and takes a targetPort that is a port's number, or may be its name.
IsServicePort(ports) ==
    /\ ports[1] \in PortNumbers
    /\ IF ports[2].type = "int" THEN ports[2].int \in PortNumbers
       ELSE ports[2].str = "name"

\* The API server takes the write: of the version read, or of an object that is
\* not there.  The selector of a Deployment is immutable.  (That a Deployment
\* selects its own pods is checked by the server as well, but not relied on
\* here: see TypeOK.)
Accepts(n) ==
    /\ IF got.there THEN fresh ELSE ~objects[n].there
    /\ n = "deployment" /\ got.there => got.selector = stable.match \cup {Rev}
    /\ n \in Services => IsServicePort(Stored(Sent(n)).ports)

Write(n) ==
    /\ pc = <<"write", n>>
    /\ ~Leaves(n)
    /\ Accepts(n)
    /\ objects' = [objects EXCEPT ![n] = Stored(Sent(n))]
    /\ Proceed
    /\ UNCHANGED <<canary, target, ask, bounds>>

Refused(n) ==
    /\ pc = <<"write", n>>
    /\ ~Leaves(n)
    /\ ~Accepts(n)
    /\ Return
    /\ UNCHANGED <<world, ask, bounds>>

\* (Mutant: without a Deployment there is nothing to clean up.)
DeleteDeploymentOrReturn ==
    /\ pc = <<"delete", "deployment">>
    /\ objects' = [objects EXCEPT !["deployment"] = Absent]
    /\ IF objects["deployment"].there
       THEN pc' = <<"delete", "canary">> /\ UNCHANGED <<ask, spec, stable, got, fresh>>
       ELSE Return /\ ask' = "rest"
    /\ UNCHANGED <<canary, target, bounds>>

\* CleanupCanary deletes by name: whether or not an object is there, and
\* whosever it is.
DeleteDeployment ==
    /\ pc = <<"delete", "deployment">>
    /\ objects' = [objects EXCEPT !["deployment"] = Absent]
    /\ pc' = <<"delete", "canary">>
    /\ UNCHANGED <<canary, target, ask, spec, stable, got, fresh, bounds>>

\* The end of a clean-up.  The status that says so may fail to be written.
DeleteService ==
    /\ pc = <<"delete", "canary">>
    /\ objects' = [objects EXCEPT !["canary"] = Absent]
    /\ \/ UNCHANGED ask
       \/ spec.uid = canary.uid /\ ask' = "rest"
    /\ Return
    /\ UNCHANGED <<canary, target, bounds>>

PassFails ==
    /\ pc # Idle
    /\ failures < MaxFailures /\ failures' = failures + 1
    /\ Return
    /\ UNCHANGED <<world, ask, created, edits>>

Calling ==
    \/ \E n \in Names : Get(n) \/ Panic(n) \/ Leave(n) \/ Write(n) \/ Refused(n)
    \/ DeleteDeployment \/ DeleteService

-----------------------------------------------------------------------------
(* The others                                                              *)

\* Somebody else writes an object.
Touch(n, o) ==
    /\ objects' = [objects EXCEPT ![n] = o]
    /\ fresh' = (fresh /\ pc[2] # n)
    /\ UNCHANGED <<pc, spec, stable, got>>

UserObject(n) ==
    [there |-> TRUE, owner |-> 0, managed |-> FALSE, selector |-> {"mine"},
     pods |-> IF n = "deployment" THEN {"mine"} ELSE {},
     ports |-> IF n = "deployment" THEN <<>> ELSE <<1, FromInt32(1)>>]

UserCreates(n) ==
    /\ ~objects[n].there
    /\ edits < MaxEdits /\ edits' = edits + 1
    /\ Touch(n, UserObject(n))
    /\ UNCHANGED <<canary, target, ask, created, failures>>

UserDeletes(n) ==
    /\ objects[n].there
    /\ edits < MaxEdits /\ edits' = edits + 1
    /\ Touch(n, Absent)
    /\ UNCHANGED <<canary, target, ask, created, failures>>

\* The user takes a Service into his own hands: the label goes, and the
\* selector is his.
UserReleases(n) ==
    /\ objects[n].managed
    /\ edits < MaxEdits /\ edits' = edits + 1
    /\ Touch(n, [objects[n] EXCEPT !.managed = FALSE, !.selector = {"mine"}])
    /\ UNCHANGED <<canary, target, ask, created, failures>>

\* Another template, or another Deployment of the name.
ReplaceTarget(t) ==
    /\ t # target
    /\ edits < MaxEdits /\ edits' = edits + 1
    /\ target' = t
    /\ UNCHANGED <<objects, canary, ask, pass, created, failures>>

CreateCanary(p) ==
    /\ canary.uid = 0
    /\ created < MaxCanaries /\ created' = created + 1
    /\ canary' = [uid |-> created', service |-> p]
    /\ UNCHANGED <<objects, target, ask, pass, edits, failures>>

EditCanary(p) ==
    /\ canary.uid # 0
    /\ p # canary.service
    /\ edits < MaxEdits /\ edits' = edits + 1
    /\ canary' = [canary EXCEPT !.service = p]
    /\ UNCHANGED <<objects, target, ask, pass, created, failures>>

DeleteCanary ==
    /\ canary.uid # 0
    /\ canary' = NoCanary
    /\ ask' = "rest"
    /\ UNCHANGED <<objects, target, pass, bounds>>

\* The garbage collector: an object whose owner is no more.
Collect(n) ==
    /\ objects[n].owner \notin {0, canary.uid}
    /\ Touch(n, Absent)
    /\ UNCHANGED <<canary, target, ask, bounds>>

Next ==
    \/ \E a \in {"ensure", "cleanup"} : Ask(a)
    \/ Begin \/ Calling \/ PassFails
    \/ \E n \in Names : UserCreates(n) \/ UserDeletes(n) \/ Collect(n)
    \/ \E n \in Services : UserReleases(n)
    \/ \E t \in Targets : ReplaceTarget(t)
    \/ \E p \in Ports : CreateCanary(p) \/ EditCanary(p)
    \/ DeleteCanary

Spec == Init /\ [][Next]_vars

\* Passes follow one another, and the garbage collector comes round.
FairSpec ==
    /\ Spec
    /\ WF_vars(Begin \/ Calling)
    /\ \A n \in Names : WF_vars(Collect(n))

-----------------------------------------------------------------------------
(* Properties                                                              *)

\* A Deployment selects its own pods, and a Service that is there has a port.
Admissible(n) ==
    LET o == objects[n]
    IN  IF n = "deployment" THEN o.selector \subseteq o.pods /\ o.ports = <<>>
        ELSE /\ o.pods = {}
             /\ o.there => /\ o.ports \in PortNumbers \X IntOrString
                           /\ IsServicePort(o.ports)

\* Every variable holds what the code's types and the API allow it.
TypeOK ==
    /\ \A n \in Names :
          /\ objects[n].owner \in 0..MaxCanaries
          /\ objects[n].managed => objects[n].there
          /\ Admissible(n)
    /\ canary.uid \in 0..MaxCanaries /\ canary.service \in PortRecords
    /\ target \in Targets /\ stable \in Targets \cup {NoTarget}
    /\ ask \in {"rest", "ensure", "cleanup"}
    /\ pc \in ({"get", "write"} \X Names)
              \cup ({"delete"} \X {"deployment", "canary"}) \cup {Idle}
    /\ fresh \in BOOLEAN
    /\ created \in 0..MaxCanaries
    /\ edits \in 0..MaxEdits /\ failures \in 0..MaxFailures

\* "We do not take over user-managed Services" (workload.go:11): no pass writes
\* a stable Service that is not labelled as Kanary's, also when the label goes
\* while the pass has the Service in its hands, and none deletes one.
StableServiceIsKept ==
    [][ LET was == objects["stable"]  is == objects'["stable"]
        IN  pc' # pc /\ was.there => is.there /\ (~was.managed => is = was) ]_vars

\* Once a clean-up is done, nothing this Canary owns but the stable Service is
\* there, whatever others deleted or created during it or before.
CleanedUp ==
    ask = "rest" /\ pc = Idle /\ canary.uid # 0 =>
        \A n \in {"deployment", "canary"} : objects[n].owner # canary.uid

\* Services that Kanary made do not outlive the Canary, those made by a pass
\* that was still running when it went included.  Nothing but the owner in
\* them sees to it: Reconcile of a Canary that is gone returns at once.
Collected ==
    []<>(canary.uid = 0 => \A n \in Services : ~objects[n].managed)

Selects(service, pods) == service.selector # {} /\ service.selector \subseteq pods

\* targetPort says which port is meant: canary_types.go:115, "a port name or
\* number", or none, for that of the Service.
IsPort(t) ==
    \/ t.text \in {"", "name"}
    \/ t.text = "number" /\ t.above = 0 /\ t.low \in PortNumbers

\* The ports of a Service are those spec.service means.
Forwards(ports, service) ==
    LET t == service.targetPort  to == ports[2]
    IN  /\ ports[1] = service.port
        /\ t.text = "" => to.type = "int" /\ to.int = service.port
        /\ t.text = "number" => to.type = "int" /\ t.above = 0 /\ to.int = t.low
        /\ t.text \in {"name", "other"} => to.type = "string" /\ to.str = t.text

\* The workload a step needs: a canary of the target's template, a Service for
\* its pods and for no other, on the ports asked for, and a stable Service.
Serving ==
    LET d == objects["deployment"]  s == objects["canary"]
    IN  /\ d.there /\ d.pods = target.pods \cup {Rev}
        /\ s.there /\ Selects(s, d.pods) /\ ~Selects(s, target.pods)
        /\ Forwards(s.ports, canary.service)
        /\ objects["stable"].there

\* What no pass makes right: a target whose labels it cannot extend; a
\* Deployment of the name with another selector; and a targetPort that is no
\* port, which the API server refuses at every pass, unless int32 or the server
\* makes a port of it, and then not the one that was written.
Blocked ==
    \/ target.match = {}
    \/ ~IsPort(canary.service.targetPort)
    \/ /\ objects["deployment"].there
       /\ objects["deployment"].selector # target.match \cup {Rev}

\* While the reconciler asks for the workload it comes about, and comes back
\* after edits and deletions, of the user or of the garbage collector.
Converges ==
    []<>(ask = "ensure" => Serving \/ Blocked)

\* workload.go:9 says the stable Service "selects stable pods via the original
\* matchLabels".  It selects the canary's pods as well, which carry them.
StableServiceSelectsStable ==
    objects["stable"].managed =>
        ~Selects(objects["stable"], objects["deployment"].pods)
=============================================================================
