--------------------------- MODULE WorkloadProofs ----------------------------
(***************************************************************************)
(* Theorems about WorkloadObjects, for any targets, any text in targetPort *)
(* and any bounds: which ports a Service comes to have, that a Deployment  *)
(* selects its own pods, that a Service of the user is let alone, and that *)
(* a clean-up that is done leaves nothing of its Canary.                   *)
(***************************************************************************)
EXTENDS WorkloadObjects, TLAPS

-----------------------------------------------------------------------------
(* The inductive invariants                                                *)

\* The labels that are about: of the targets, Kanary's, and the user's.
Labels == (UNION {t.pods : t \in Targets}) \cup {Rev, "mine"}

PortPairs == PortNumbers \X IntOrString

ObjectRecords == [there: BOOLEAN, owner: Nat, managed: BOOLEAN,
                  selector: SUBSET Labels, pods: SUBSET Labels,
                  ports: PortPairs \cup {<<>>}]

CanaryRecords == [uid: Nat, service: PortRecords]

\* An object that may be sent under name n, owned by none that is yet to be
\* created, ...
Shaped(n, o) ==
    /\ o.owner <= created
    /\ o.managed => o.there
    /\ IF n = "deployment" THEN o.selector \subseteq o.pods /\ o.ports = <<>>
       ELSE o.pods = {} /\ (o.there => o.ports \in PortPairs)

\* ... and one that the API server keeps there.
Fits(n, o) ==
    /\ Shaped(n, o)
    /\ n # "deployment" /\ o.there => IsServicePort(o.ports)

ObjectsInv ==
    /\ objects \in [Names -> ObjectRecords]
    /\ \A n \in Names : Fits(n, objects[n])

\* What fresh means: the object in the pass's hands is the one on the server.
FreshInv ==
    /\ fresh \in BOOLEAN
    /\ fresh => pc[1] = "write" /\ got = objects[pc[2]]

PassCalls == ({"get", "write"} \X Names) \cup ({"delete"} \X {"deployment", "canary"})

\* Canaries are counted up, so that none has the uid of an earlier one.
PassInv ==
    /\ pc \in PassCalls \cup {Idle}
    /\ spec \in CanaryRecords /\ spec.uid <= created
    /\ pc # Idle => spec.uid # 0
    /\ stable \in Targets \cup {NoTarget}

BoundsInv ==
    /\ canary \in CanaryRecords /\ canary.uid <= created
    /\ target \in Targets
    /\ ask \in {"rest", "ensure", "cleanup"}
    /\ created \in 0..MaxCanaries
    /\ edits \in 0..MaxEdits /\ failures \in 0..MaxFailures

WorkInv == ObjectsInv /\ FreshInv /\ PassInv /\ BoundsInv

\* The strengthening of CleanedUp: while nothing is asked for, no pass is left
\* that writes in the name of the Canary, and half way through a clean-up the
\* Deployment is gone and does not come back as the Canary's.
CleanInv ==
    /\ ask = "rest" /\ canary.uid # 0 =>
          /\ \A n \in {"deployment", "canary"} : objects[n].owner # canary.uid
          /\ pc[1] \in {"get", "write"} => spec.uid # canary.uid
    /\ pc = <<"delete", "canary">> /\ spec.uid = canary.uid =>
          objects["deployment"].owner # canary.uid

-----------------------------------------------------------------------------
(* What is written                                                         *)

LEMMA NothingTypes ==
    /\ Absent \in ObjectRecords /\ Absent.owner = 0 /\ ~Absent.there
    /\ ~Absent.managed /\ Absent.ports = <<>>
    /\ Absent.selector = {} /\ Absent.pods = {}
    /\ NoCanary \in CanaryRecords /\ NoCanary.uid = 0
    /\ NoTarget.match = {} /\ NoTarget.pods = {}
  <1>1. 1 \in PortNumbers /\ 0 \in Int32
    BY DEF PortNumbers, Int32
  <1>2. Unset \in TargetPorts
    BY <1>1 DEF Unset, TargetPorts
  <1> QED
    BY <1>1, <1>2 DEF Absent, ObjectRecords, NoCanary, CanaryRecords, PortRecords, NoTarget

LEMMA AbsentFits ==
    ASSUME NEW n \in Names, created \in Nat
    PROVE  Fits(n, Absent)
  BY NothingTypes DEF Fits, Shaped

LEMMA FromInt32Type ==
    ASSUME NEW i \in Int32
    PROVE  FromInt32(i) \in IntOrString /\ FromInt32(i).type = "int" /\ FromInt32(i).int = i
  BY DEF FromInt32, IntOrString

LEMMA PortNumbersFit == PortNumbers \subseteq Int32 /\ 0 \in Int32
  BY DEF PortNumbers, Int32

LEMMA ServicePortsType ==
    ASSUME NEW c \in CanaryRecords
    PROVE  servicePorts(c) \in PortPairs
  <1> DEFINE t == c.service.targetPort
  <1>1. c.service.port \in PortNumbers /\ t \in TargetPorts
    BY DEF CanaryRecords, PortRecords
  <1>2. targetPort(t, c.service.port) \in IntOrString
    <2>1. t.low \in Int32 /\ t.text \in {"", "number", "name", "other"}
      BY <1>1 DEF TargetPorts
    <2>2. /\ FromInt32(c.service.port) \in IntOrString /\ FromInt32(t.low) \in IntOrString
          /\ t.text \in {"name", "other"} => FromString(t.text) \in IntOrString
      BY <1>1, <2>1, FromInt32Type, PortNumbersFit DEF FromString, IntOrString
    <2> QED
      BY <2>1, <2>2 DEF targetPort
  <1> QED
    BY <1>1, <1>2 DEF servicePorts, PortPairs

LEMMA LabelTypes == {Rev} \in SUBSET Labels /\ {"mine"} \in SUBSET Labels
  <1>1. \A S : Rev \in S \cup {Rev, "mine"} /\ "mine" \in S \cup {Rev, "mine"}
    OBVIOUS
  <1>2. Rev \in Labels /\ "mine" \in Labels
    BY <1>1, Zenon DEF Labels
  <1> QED
    BY <1>2, Zenon

\* A target as a pass holds it.
LEMMA TargetType ==
    ASSUME NEW t \in Targets \cup {NoTarget}
    PROVE  t.match \subseteq t.pods /\ t.match \subseteq Labels /\ t.pods \subseteq Labels
  <1>1. CASE t \in Targets
    BY <1>1, WorkloadAssumption DEF Labels
  <1>2. CASE t = NoTarget
    <2>1. t.match = {} /\ t.pods = {}
      BY <1>2 DEF NoTarget
    <2> QED
      BY <2>1
  <1> QED
    BY <1>1, <1>2

\* What the builders build is the Canary's.
LEMMA WantedShaped ==
    ASSUME NEW n \in Names, NEW c \in CanaryRecords, NEW t \in Targets \cup {NoTarget},
           created \in Nat, c.uid <= created
    PROVE  LET o == Wanted(n, c, t)
           IN  o \in ObjectRecords /\ Shaped(n, o) /\ o.owner = c.uid /\ o.there
  <1> DEFINE ports == servicePorts(c)
  <1>1. ports \in PortPairs
    BY ServicePortsType
  <1>2. /\ t.match \subseteq t.pods /\ t.match \cup {Rev} \subseteq Labels
        /\ t.pods \cup {Rev} \subseteq Labels /\ t.match \subseteq Labels
        /\ t.match \cup {Rev} \subseteq t.pods \cup {Rev}
    BY TargetType, LabelTypes
  <1>3. c.uid \in Nat
    BY DEF CanaryRecords
  <1> HIDE DEF ports
  <1>4. CASE n = "deployment"
    BY <1>2, <1>3, <1>4 DEF Wanted, buildCanaryDeployment, ObjectRecords, Shaped
  <1>5. CASE n = "stable"
    BY <1>1, <1>2, <1>3, <1>5 DEF Wanted, buildStableService, ObjectRecords, Shaped, ports
  <1>6. CASE n = "canary"
    BY <1>1, <1>2, <1>3, <1>6 DEF Wanted, buildCanaryService, ObjectRecords, Shaped, ports
  <1> QED
    BY <1>4, <1>5, <1>6 DEF Names

\* An Update leaves an object that is there, and whose it was.
LEMMA UpdatedShaped ==
    ASSUME NEW n \in Names, NEW old \in ObjectRecords, Shaped(n, old), old.there,
           NEW want \in ObjectRecords, Shaped(n, want), want.there
    PROVE  LET o == Updated(n, old, want)
           IN  o \in ObjectRecords /\ Shaped(n, o) /\ o.owner = old.owner /\ o.there
  <1>1. CASE n = "deployment"
    BY <1>1 DEF Updated, ObjectRecords, Shaped
  <1>2. CASE n = "stable"
    BY <1>2 DEF Updated, ObjectRecords, Shaped
  <1>3. CASE n = "canary"
    BY <1>3 DEF Updated, ObjectRecords, Shaped
  <1> QED
    BY <1>1, <1>2, <1>3 DEF Names

LEMMA DefaultedType ==
    ASSUME NEW p \in PortPairs
    PROVE  Defaulted(p) \in PortPairs /\ Defaulted(p)[1] = p[1]
  <1>1. p[1] \in PortNumbers /\ p[2] \in IntOrString
    BY DEF PortPairs
  <1>2. FromInt32(p[1]) \in IntOrString
    BY <1>1, FromInt32Type, PortNumbersFit
  <1> QED
    BY <1>1, <1>2 DEF Defaulted, PortPairs

\* The API server fills in ports, and takes what it then finds to be ports.
LEMMA StoredFits ==
    ASSUME NEW n \in Names, NEW sent \in ObjectRecords, Shaped(n, sent), sent.there,
           n \in Services => IsServicePort(Stored(sent).ports)
    PROVE  LET o == Stored(sent)
           IN  o \in ObjectRecords /\ Fits(n, o) /\ o.owner = sent.owner /\ o.there
  <1> DEFINE o == Stored(sent)
             ports == Defaulted(sent.ports)
  <1>1. CASE sent.ports = <<>>
    <2>1. o = sent
      BY <1>1 DEF Stored
    <2>2. n # "deployment" => n \in Services
      BY DEF Names, Services
    <2> QED
      BY <2>1, <2>2 DEF Fits
  <1>2. CASE sent.ports # <<>>
    <2>1. sent.ports \in PortPairs /\ n # "deployment"
      BY <1>2 DEF ObjectRecords, Shaped
    <2>2. n \in Services
      BY <2>1 DEF Names, Services
    <2>3. ports \in PortPairs
      BY <2>1, DefaultedType
    <2> HIDE DEF ports
    <2>4. o = [sent EXCEPT !.ports = ports]
      BY <1>2 DEF Stored, ports
    <2>5. /\ o.owner = sent.owner /\ o.there = sent.there /\ o.managed = sent.managed
          /\ o.pods = sent.pods /\ o.selector = sent.selector /\ o.ports = ports
          /\ o \in ObjectRecords
      BY <2>3, <2>4 DEF ObjectRecords
    <2>6. IsServicePort(o.ports)
      BY <2>2
    <2> HIDE DEF o
    <2>7. Shaped(n, o)
      BY <2>1, <2>3, <2>5 DEF Shaped
    <2>8. Fits(n, o)
      BY <2>6, <2>7 DEF Fits
    <2> QED
      BY <2>5, <2>8 DEF o
  <1> QED
    BY <1>1, <1>2

LEMMA UserObjectFits ==
    ASSUME NEW n \in Names, created \in Nat
    PROVE  /\ UserObject(n) \in ObjectRecords /\ Fits(n, UserObject(n))
           /\ UserObject(n).owner = 0
  <1> DEFINE one == <<1, FromInt32(1)>>
  <1>1. 1 \in PortNumbers /\ 1 \in Int32
    BY DEF PortNumbers, Int32
  <1>2. one \in PortPairs /\ IsServicePort(one) /\ one # <<>>
    BY <1>1, FromInt32Type DEF PortPairs, IsServicePort
  <1> HIDE DEF one
  <1>3. CASE n = "deployment"
    <2> DEFINE o == [there |-> TRUE, owner |-> 0, managed |-> FALSE, selector |-> {"mine"},
                     pods |-> {"mine"}, ports |-> <<>>]
    <2>1. UserObject(n) = o
      BY <1>3 DEF UserObject
    <2>2. o \in ObjectRecords
      BY LabelTypes DEF ObjectRecords
    <2>3. Fits(n, o) /\ o.owner = 0
      BY <1>3 DEF Fits, Shaped
    <2> QED
      BY <2>1, <2>2, <2>3
  <1>4. CASE n # "deployment"
    <2> DEFINE o == [there |-> TRUE, owner |-> 0, managed |-> FALSE, selector |-> {"mine"},
                     pods |-> {}, ports |-> one]
    <2>1. UserObject(n) = o
      BY <1>4 DEF UserObject, one
    <2>2. o \in ObjectRecords
      BY <1>2, LabelTypes DEF ObjectRecords
    <2>3. Fits(n, o) /\ o.owner = 0
      BY <1>2, <1>4 DEF Fits, Shaped
    <2> QED
      BY <2>1, <2>2, <2>3
  <1> QED
    BY <1>3, <1>4

LEMMA ReleasedFits ==
    ASSUME NEW n \in Services, NEW old \in ObjectRecords, Fits(n, old)
    PROVE  LET o == [old EXCEPT !.managed = FALSE, !.selector = {"mine"}]
           IN  o \in ObjectRecords /\ Fits(n, o) /\ o.owner = old.owner
  <1> DEFINE o == [old EXCEPT !.managed = FALSE, !.selector = {"mine"}]
  <1>1. /\ o.there = old.there /\ o.owner = old.owner /\ o.managed = FALSE
        /\ o.pods = old.pods /\ o.ports = old.ports
    BY DEF ObjectRecords
  <1>2. o \in ObjectRecords
    BY LabelTypes DEF ObjectRecords
  <1>3. n # "deployment"
    BY DEF Services
  <1> HIDE DEF o
  <1>4. Fits(n, o)
    BY <1>1, <1>3 DEF Fits, Shaped
  <1> QED
    BY <1>1, <1>2, <1>4 DEF o

-----------------------------------------------------------------------------
(* Ports                                                                   *)

LEMMA PortKinds ==
    /\ \A i, s : FromInt32(i) # FromString(s)
    /\ \A i, j : FromInt32(i) = FromInt32(j) => i = j
    /\ \A r, s : FromString(r) = FromString(s) => r = s
  BY DEF FromInt32, FromString

\* Ports to a number, ...
LEMMA NumberedPort ==
    ASSUME NEW p, NEW i
    PROVE  /\ Defaulted(<<p, FromInt32(i)>>) = <<p, FromInt32(IF i = 0 THEN p ELSE i)>>
           /\ IsServicePort(<<p, FromInt32(i)>>) <=> p \in PortNumbers /\ i \in PortNumbers
  <1> DEFINE port == <<p, FromInt32(i)>>
  <1>1. /\ port[1] = p /\ port[2] = FromInt32(i)
        /\ port[2].type = "int" /\ port[2].int = i
    BY DEF FromInt32
  <1>2. port[2] \in {FromInt32(0), FromString("")} <=> i = 0
    BY <1>1, PortKinds
  <1> HIDE DEF port
  <1>3. Defaulted(port) = <<p, FromInt32(IF i = 0 THEN p ELSE i)>>
    <2>1. CASE i = 0
      BY <1>1, <1>2, <2>1 DEF Defaulted
    <2>2. CASE i # 0
      BY <1>1, <1>2, <2>2 DEF Defaulted, port
    <2> QED
      BY <2>1, <2>2
  <1>4. IsServicePort(port) <=> p \in PortNumbers /\ i \in PortNumbers
    BY <1>1 DEF IsServicePort
  <1> QED
    BY <1>3, <1>4 DEF port

\* ... and to a text.
LEMMA NamedPort ==
    ASSUME NEW p, NEW s \in {"name", "other"}
    PROVE  /\ Defaulted(<<p, FromString(s)>>) = <<p, FromString(s)>>
           /\ IsServicePort(<<p, FromString(s)>>) <=> p \in PortNumbers /\ s = "name"
  <1> DEFINE port == <<p, FromString(s)>>
  <1>1. /\ port[1] = p /\ port[2] = FromString(s)
        /\ port[2].type = "string" /\ port[2].str = s
    BY DEF FromString
  <1>2. port[2] \notin {FromInt32(0), FromString("")}
    BY <1>1, PortKinds
  <1> HIDE DEF port
  <1>3. Defaulted(port) = port
    BY <1>2 DEF Defaulted
  <1>4. IsServicePort(port) <=> p \in PortNumbers /\ s = "name"
    BY <1>1 DEF IsServicePort
  <1> QED
    BY <1>3, <1>4 DEF port

\* What it is for the ports to be those that are meant.
LEMMA ForwardsTo ==
    ASSUME NEW p, NEW service, service.port = p
    PROVE  LET t == service.targetPort
           IN  /\ \A i : Forwards(<<p, FromInt32(i)>>, service) <=>
                      /\ t.text = "" => i = p
                      /\ t.text = "number" => t.above = 0 /\ i = t.low
                      /\ t.text \notin {"name", "other"}
               /\ \A s : Forwards(<<p, FromString(s)>>, service) <=>
                      t.text \notin {"", "number"} /\ (t.text \in {"name", "other"} => s = t.text)
  BY DEF Forwards, FromInt32, FromString

\* What becomes of targetPort, a string that nothing checks: the ports Kanary
\* asks for are those the Canary means, and are taken, exactly where it says a
\* port.  Of all other texts the server takes just those that come to 0 in 32
\* bits, where it puts the port of the Service, and those that int32 cuts to
\* another port; the rest, as "70000" or "-1", it refuses at every pass.
THEOREM ServedPorts ==
    ASSUME NEW c \in CanaryRecords
    PROVE  LET t     == c.service.targetPort
               ports == Defaulted(servicePorts(c))
           IN  /\ IsServicePort(ports) /\ Forwards(ports, c.service) <=> IsPort(t)
               /\ IsServicePort(ports) /\ ~IsPort(t) <=>
                      /\ t.text = "number"
                      /\ t.low = 0 \/ (t.above # 0 /\ t.low \in PortNumbers)
  <1> DEFINE t     == c.service.targetPort
             port  == c.service.port
             ports == Defaulted(servicePorts(c))
  <1>1. port \in PortNumbers /\ t \in TargetPorts
    BY DEF CanaryRecords, PortRecords
  <1>2. port # 0 /\ 0 \notin PortNumbers
    <2>1. 0 \notin PortNumbers
      BY DEF PortNumbers
    <2> HIDE DEF port
    <2> QED
      BY <1>1, <2>1
  <1>3. t.text \in {"", "number", "name", "other"}
    BY <1>1 DEF TargetPorts
  <1>4. servicePorts(c) = <<port, targetPort(t, port)>>
    BY DEF servicePorts
  <1>5. /\ \A i : Forwards(<<port, FromInt32(i)>>, c.service) <=>
                /\ t.text = "" => i = port
                /\ t.text = "number" => t.above = 0 /\ i = t.low
                /\ t.text \notin {"name", "other"}
        /\ \A s : Forwards(<<port, FromString(s)>>, c.service) <=>
                t.text \notin {"", "number"} /\ (t.text \in {"name", "other"} => s = t.text)
    BY ForwardsTo
  <1> HIDE DEF t, port
  <1>6. CASE t.text = ""
    <2>1. ports = <<port, FromInt32(port)>>
      BY <1>2, <1>4, <1>6, NumberedPort DEF targetPort
    <2>2. IsServicePort(ports) /\ Forwards(ports, c.service) /\ IsPort(t)
      BY <1>1, <1>6, <2>1, <1>5, NumberedPort DEF IsPort
    <2> QED
      BY <1>6, <2>2 DEF t
  <1>7. CASE t.text = "number"
    <2>1. ports = <<port, FromInt32(IF t.low = 0 THEN port ELSE t.low)>>
      BY <1>4, <1>7, NumberedPort DEF targetPort
    <2>2. IsServicePort(ports) <=> t.low = 0 \/ t.low \in PortNumbers
      BY <1>1, <2>1, NumberedPort
    <2>3. Forwards(ports, c.service) <=> t.above = 0 /\ t.low # 0
      BY <1>2, <1>7, <1>5, <2>1
    <2>4. IsPort(t) <=> t.above = 0 /\ t.low \in PortNumbers
      BY <1>7 DEF IsPort
    <2> QED
      BY <1>2, <1>7, <2>2, <2>3, <2>4 DEF t
  <1>8. CASE t.text \in {"name", "other"}
    <2>1. ports = <<port, FromString(t.text)>>
      BY <1>4, <1>8, NamedPort DEF targetPort
    <2>2. IsServicePort(ports) <=> t.text = "name"
      BY <1>1, <1>8, <2>1, NamedPort
    <2>3. Forwards(ports, c.service)
      BY <1>8, <1>5, <2>1
    <2>4. IsPort(t) <=> t.text = "name"
      BY <1>8 DEF IsPort
    <2> QED
      BY <1>8, <2>2, <2>3, <2>4 DEF t
  <1> QED
    BY <1>3, <1>6, <1>7, <1>8 DEF t

-----------------------------------------------------------------------------
(* What a step does to the objects                                         *)

\* A Canary more changes nothing about the objects that are there.
LEMMA SameObjects ==
    ASSUME ObjectsInv, objects' = objects, created \in Nat, created' \in Nat,
           created' >= created
    PROVE  ObjectsInv'
  <1>1. \A n \in Names : Fits(n, objects[n])'
    <2> SUFFICES ASSUME NEW n \in Names PROVE Fits(n, objects[n])'
      OBVIOUS
    <2>1. Fits(n, objects[n]) /\ objects[n] \in ObjectRecords
      BY DEF ObjectsInv
    <2>2. objects[n].owner \in Nat
      BY <2>1 DEF ObjectRecords
    <2>3. objects[n].owner <= created'
      BY <2>1, <2>2 DEF Fits, Shaped
    <2> QED
      BY <2>1, <2>3 DEF Fits, Shaped
  <1> QED
    BY <1>1 DEF ObjectsInv

\* One object is written.
LEMMA OneObject ==
    ASSUME ObjectsInv, NEW n \in Names, NEW o \in ObjectRecords, Fits(n, o),
           objects' = [objects EXCEPT ![n] = o], created' = created
    PROVE  /\ ObjectsInv'
           /\ objects'[n] = o
           /\ \A m \in Names \ {n} : objects'[m] = objects[m]
  <1>1. /\ objects' \in [Names -> ObjectRecords] /\ objects'[n] = o
        /\ \A m \in Names \ {n} : objects'[m] = objects[m]
    BY DEF ObjectsInv
  <1>2. \A m \in Names : Fits(m, objects[m])'
    <2> SUFFICES ASSUME NEW m \in Names PROVE Fits(m, objects[m])'
      OBVIOUS
    <2>1. Fits(m, objects'[m])
      BY <1>1 DEF ObjectsInv
    <2> QED
      BY <2>1 DEF Fits, Shaped
  <1> QED
    BY <1>1, <1>2 DEF ObjectsInv

\* What a pass that gets through writes.
LEMMA WriteObject ==
    ASSUME NEW n \in Names, WorkInv, Write(n)
    PROVE  LET o == objects'[n]
           IN  /\ ObjectsInv'
               /\ \A m \in Names \ {n} : objects'[m] = objects[m]
               /\ o.there
               /\ objects[n].there =>
                      /\ o.owner = objects[n].owner
                      /\ n = "stable" => objects[n].managed
               /\ ~objects[n].there => o.owner = spec.uid
  <1> DEFINE want == Wanted(n, spec, stable)
             sent == IF got.there THEN Updated(n, got, want) ELSE want
             o == Stored(sent)
  <1>1. /\ ObjectsInv /\ objects \in [Names -> ObjectRecords] /\ created \in Nat
        /\ objects[n] \in ObjectRecords /\ Fits(n, objects[n])
        /\ spec \in CanaryRecords /\ spec.uid <= created
        /\ stable \in Targets \cup {NoTarget}
    BY WorkloadAssumption DEF WorkInv, ObjectsInv, PassInv, BoundsInv
  <1>2. want \in ObjectRecords /\ Shaped(n, want) /\ want.owner = spec.uid /\ want.there
    BY <1>1, WantedShaped
  <1>3. /\ pc = <<"write", n>> /\ ~Leaves(n) /\ Accepts(n)
        /\ objects' = [objects EXCEPT ![n] = o] /\ created' = created
        /\ n \in Services => IsServicePort(o.ports)
    BY DEF Write, bounds, Accepts, Sent
  <1>4. got.there => got = objects[n]
    BY <1>3 DEF Accepts, WorkInv, FreshInv
  <1>5. got.there => objects[n].there
    BY <1>4
  <1>6. ~got.there => ~objects[n].there
    BY <1>3 DEF Accepts
  <1> HIDE DEF want
  <1>7. /\ o \in ObjectRecords /\ Fits(n, o) /\ o.there
        /\ objects[n].there => o.owner = objects[n].owner
        /\ ~objects[n].there => o.owner = spec.uid
    <2>1. /\ sent \in ObjectRecords /\ Shaped(n, sent) /\ sent.there
          /\ objects[n].there => sent.owner = objects[n].owner
          /\ ~objects[n].there => sent.owner = spec.uid
      <3>1. CASE got.there
        BY <1>1, <1>2, <1>4, <1>5, <3>1, UpdatedShaped DEF Fits
      <3>2. CASE ~got.there
        BY <1>2, <1>6, <3>2
      <3> QED
        BY <3>1, <3>2
    <2> HIDE DEF sent
    <2> QED
      BY <1>3, <2>1, StoredFits
  <1>8. objects[n].there /\ n = "stable" => objects[n].managed
    BY <1>3, <1>4, <1>6 DEF Leaves
  <1> HIDE DEF o
  <1>9. /\ ObjectsInv' /\ objects'[n] = o
        /\ \A m \in Names \ {n} : objects'[m] = objects[m]
    BY <1>1, <1>3, <1>7, OneObject
  <1> QED
    BY <1>7, <1>8, <1>9

\* An object that goes.
LEMMA DeleteObject ==
    ASSUME NEW n \in Names, WorkInv, objects' = [objects EXCEPT ![n] = Absent],
           created' = created
    PROVE  /\ ObjectsInv' /\ objects'[n] = Absent
           /\ \A m \in Names \ {n} : objects'[m] = objects[m]
  <1>1. ObjectsInv /\ created \in Nat
    BY WorkloadAssumption DEF WorkInv, BoundsInv
  <1> QED
    BY <1>1, NothingTypes, AbsentFits, OneObject

\* A call is its verb and its object.
LEMMA CallShape ==
    /\ Idle[1] = "idle" /\ Idle \notin PassCalls
    /\ \A c \in PassCalls : /\ c[1] \in {"get", "write", "delete"} /\ c[2] \in Names
                            /\ c[1] = "delete" => c[2] \in {"deployment", "canary"}
    /\ \A n \in Names : <<"get", n>> \in PassCalls /\ <<"write", n>> \in PassCalls
    /\ <<"delete", "deployment">> \in PassCalls /\ <<"delete", "canary">> \in PassCalls
  BY DEF Idle, PassCalls, Names

\* The end of a pass.
LEMMA ReturnType ==
    ASSUME Return, created' \in Nat
    PROVE  PassInv' /\ FreshInv' /\ pc' = Idle
  <1>1. pc' = Idle /\ spec' = NoCanary /\ stable' = NoTarget /\ fresh' = FALSE
    BY DEF Return
  <1>2. spec' \in CanaryRecords /\ spec'.uid <= created'
    BY <1>1, NothingTypes
  <1> QED
    BY <1>1, <1>2 DEF PassInv, FreshInv

\* A write done, or left: the pass goes on to the next object, or ends.
LEMMA ProceedType ==
    ASSUME PassInv, created' = created, created \in Nat,
           NEW n \in Names, pc = <<"write", n>>, Proceed
    PROVE  /\ PassInv' /\ FreshInv' /\ pc' # pc
           /\ pc' = Idle \/ (pc'[1] = "get" /\ spec' = spec)
  <1>1. CASE n = "canary"
    <2>1. Return
      BY <1>1 DEF Proceed
    <2>2. pc # Idle
      BY CallShape
    <2> QED
      BY <2>1, <2>2, ReturnType
  <1>2. CASE n # "canary"
    <2>1. /\ \E m \in Names : pc' = <<"get", m>>
          /\ spec' = spec /\ stable' = stable /\ fresh' = FALSE
      BY <1>2 DEF Proceed, Names
    <2>2. pc # Idle
      BY CallShape
    <2>3. PassInv' /\ FreshInv'
      BY <2>1, <2>2, CallShape DEF PassInv, FreshInv
    <2>4. pc'[1] = "get" /\ pc[1] = "write"
      BY <2>1
    <2> QED
      BY <2>1, <2>3, <2>4
  <1> QED
    BY <1>1, <1>2

-----------------------------------------------------------------------------
(* The invariant is inductive                                              *)

LEMMA InitWorkInv == Init => WorkInv
  <1> SUFFICES ASSUME Init PROVE WorkInv
    OBVIOUS
  <1>1. created = 0 /\ edits = 0 /\ failures = 0
    BY DEF Init
  <1>2. ObjectsInv
    BY <1>1, NothingTypes, AbsentFits DEF Init, ObjectsInv
  <1>3. PassInv /\ FreshInv
    <2>1. /\ pc = Idle /\ spec = NoCanary /\ stable = NoTarget /\ fresh = FALSE
      BY DEF Init
    <2>2. spec \in CanaryRecords /\ spec.uid <= created
      BY <1>1, <2>1, NothingTypes
    <2> QED
      BY <2>1, <2>2 DEF PassInv, FreshInv
  <1>4. BoundsInv
    BY <1>1, NothingTypes, WorkloadAssumption DEF Init, BoundsInv
  <1> QED
    BY <1>2, <1>3, <1>4 DEF WorkInv

\* Writing an object behind the pass's back.
LEMMA TouchKeeps ==
    ASSUME WorkInv, NEW n \in Names, NEW o \in ObjectRecords, Fits(n, o), Touch(n, o),
           created' = created
    PROVE  /\ ObjectsInv' /\ FreshInv' /\ PassInv'
           /\ objects'[n] = o
           /\ \A m \in Names \ {n} : objects'[m] = objects[m]
  <1>1. ObjectsInv /\ FreshInv /\ PassInv
    BY DEF WorkInv
  <1>2. /\ objects' = [objects EXCEPT ![n] = o]
        /\ fresh' = (fresh /\ pc[2] # n)
        /\ UNCHANGED <<pc, spec, stable, got>>
    BY DEF Touch
  <1>3. /\ ObjectsInv' /\ objects'[n] = o
        /\ \A m \in Names \ {n} : objects'[m] = objects[m]
    BY <1>1, <1>2, OneObject
  <1>4. FreshInv'
    <2>1. fresh' \in BOOLEAN
      BY <1>2
    <2>2. ASSUME fresh' PROVE pc'[1] = "write" /\ got' = objects'[pc'[2]]
      <3>1. pc[1] = "write" /\ got = objects[pc[2]] /\ pc[2] # n
        BY <1>1, <1>2, <2>2 DEF FreshInv
      <3>2. pc[2] \in Names
        BY <1>1, <3>1, CallShape DEF PassInv
      <3> QED
        BY <1>2, <1>3, <3>1, <3>2
    <2> QED
      BY <2>1, <2>2 DEF FreshInv
  <1>5. PassInv'
    BY <1>1, <1>2 DEF PassInv
  <1> QED
    BY <1>3, <1>4, <1>5

LEMMA NextWorkInv == WorkInv /\ [Next]_vars => WorkInv'
  <1> SUFFICES ASSUME WorkInv, [Next]_vars PROVE WorkInv'
    OBVIOUS
  <1>1. ObjectsInv /\ FreshInv /\ PassInv /\ BoundsInv
    BY DEF WorkInv
  <1>2. /\ created \in Nat /\ canary \in CanaryRecords /\ target \in Targets
        /\ MaxCanaries \in Nat /\ MaxEdits \in Nat /\ MaxFailures \in Nat
        /\ edits \in 0..MaxEdits /\ failures \in 0..MaxFailures
    BY <1>1, WorkloadAssumption DEF BoundsInv
  <1>3. ASSUME UNCHANGED <<canary, target, created>>, ask' \in {"rest", "ensure", "cleanup"},
               edits' \in 0..MaxEdits, failures' \in 0..MaxFailures
        PROVE  BoundsInv'
    BY <1>1, <1>3 DEF BoundsInv
  <1>4. ASSUME NEW a \in {"ensure", "cleanup"}, Ask(a) PROVE WorkInv'
    <2>1. UNCHANGED <<world, pass, bounds>> /\ ask' = a
      BY <1>4 DEF Ask
    <2>2. ObjectsInv' /\ FreshInv' /\ PassInv'
      BY <1>1, <2>1, SameObjects, <1>2 DEF FreshInv, PassInv, world, pass, bounds
    <2> QED
      BY <1>2, <1>3, <2>1, <2>2 DEF WorkInv, world, bounds
  <1>5. CASE Begin
    <2>1. /\ pc = Idle /\ canary.uid # 0 /\ spec' = canary /\ stable' = target
          /\ pc' \in {<<"get", "deployment">>, <<"delete", "deployment">>}
          /\ UNCHANGED <<world, ask, got, fresh, bounds>>
      BY <1>5 DEF Begin
    <2>2. fresh = FALSE
      BY <1>1, <2>1, CallShape DEF FreshInv
    <2>3. FreshInv'
      BY <2>1, <2>2 DEF FreshInv
    <2>4. PassInv'
      BY <1>1, <1>2, <2>1, CallShape DEF PassInv, BoundsInv, bounds, Names
    <2>5. ObjectsInv'
      BY <1>1, <1>2, <2>1, SameObjects DEF world, bounds
    <2>6. BoundsInv'
      BY <1>1, <2>1 DEF BoundsInv, world, bounds
    <2> QED
      BY <2>3, <2>4, <2>5, <2>6 DEF WorkInv
  <1>6. ASSUME NEW n \in Names, Get(n) PROVE WorkInv'
    <2>1. /\ pc = <<"get", n>> /\ pc' = <<"write", n>> /\ got' = objects[n] /\ fresh' = TRUE
          /\ UNCHANGED <<world, ask, spec, stable, bounds>>
      BY <1>6 DEF Get
    <2>2. FreshInv'
      BY <2>1 DEF FreshInv, world
    <2>3. PassInv'
      BY <1>1, <2>1, CallShape DEF PassInv, bounds
    <2>4. ObjectsInv' /\ BoundsInv'
      BY <1>1, <1>2, <2>1, SameObjects DEF BoundsInv, world, bounds
    <2> QED
      BY <2>2, <2>3, <2>4 DEF WorkInv
  <1>7. ASSUME NEW n \in Names, Leave(n) PROVE WorkInv'
    <2>1. pc = <<"write", n>> /\ Proceed /\ UNCHANGED <<world, ask, bounds>>
      BY <1>7 DEF Leave
    <2>2. PassInv' /\ FreshInv'
      BY <1>1, <1>2, <2>1, ProceedType DEF bounds
    <2>3. ObjectsInv' /\ BoundsInv'
      BY <1>1, <1>2, <2>1, SameObjects DEF BoundsInv, world, bounds
    <2> QED
      BY <2>2, <2>3 DEF WorkInv
  <1>8. ASSUME NEW n \in Names, Write(n) PROVE WorkInv'
    <2>1. pc = <<"write", n>> /\ Proceed /\ UNCHANGED <<canary, target, ask, bounds>>
      BY <1>8 DEF Write
    <2>2. PassInv' /\ FreshInv'
      BY <1>1, <1>2, <2>1, ProceedType DEF bounds
    <2>3. ObjectsInv'
      BY <1>8, WriteObject
    <2>4. BoundsInv'
      BY <1>1, <2>1 DEF BoundsInv, bounds
    <2> QED
      BY <2>2, <2>3, <2>4 DEF WorkInv
  <1>9. CASE Return /\ UNCHANGED <<world, ask, created, edits>>
             /\ failures' \in 0..MaxFailures
    <2>1. PassInv' /\ FreshInv'
      BY <1>2, <1>9, ReturnType
    <2>2. ObjectsInv' /\ BoundsInv'
      BY <1>1, <1>2, <1>9, SameObjects DEF BoundsInv, world
    <2> QED
      BY <2>1, <2>2 DEF WorkInv
  <1>10. CASE DeleteDeployment
    <2>1. /\ pc = <<"delete", "deployment">> /\ pc' = <<"delete", "canary">>
          /\ objects' = [objects EXCEPT !["deployment"] = Absent]
          /\ UNCHANGED <<canary, target, ask, spec, stable, got, fresh, bounds>>
      BY <1>10 DEF DeleteDeployment
    <2>2. ObjectsInv'
      BY <2>1, DeleteObject DEF Names, bounds
    <2>3. fresh = FALSE
      BY <1>1, <2>1 DEF FreshInv
    <2>4. FreshInv'
      BY <2>1, <2>3 DEF FreshInv
    <2>5. PassInv'
      BY <1>1, <2>1, CallShape DEF PassInv, bounds
    <2>6. BoundsInv'
      BY <1>1, <2>1 DEF BoundsInv, bounds
    <2> QED
      BY <2>2, <2>4, <2>5, <2>6 DEF WorkInv
  <1>11. CASE DeleteService
    <2>1. /\ objects' = [objects EXCEPT !["canary"] = Absent] /\ Return
          /\ ask' \in {ask, "rest"} /\ UNCHANGED <<canary, target, bounds>>
      BY <1>11 DEF DeleteService
    <2>2. ObjectsInv'
      BY <2>1, DeleteObject DEF Names, bounds
    <2>3. PassInv' /\ FreshInv'
      BY <1>2, <2>1, ReturnType DEF bounds
    <2>4. BoundsInv'
      BY <1>1, <2>1 DEF BoundsInv, bounds
    <2> QED
      BY <2>2, <2>3, <2>4 DEF WorkInv
  <1>12. ASSUME NEW n \in Names, NEW o \in ObjectRecords, Fits(n, o), Touch(n, o),
                UNCHANGED <<canary, target, ask, created, failures>>, edits' \in 0..MaxEdits
         PROVE  WorkInv'
    <2>1. ObjectsInv' /\ FreshInv' /\ PassInv'
      BY <1>12, TouchKeeps
    <2>2. BoundsInv'
      BY <1>1, <1>12 DEF BoundsInv
    <2> QED
      BY <2>1, <2>2 DEF WorkInv
  <1>13. ASSUME NEW n \in Names, UserCreates(n) \/ UserDeletes(n) \/ Collect(n)
         PROVE  WorkInv'
    <2>1. \E o \in {UserObject(n), Absent} : Touch(n, o)
      BY <1>13 DEF UserCreates, UserDeletes, Collect
    <2>2. \A o \in {UserObject(n), Absent} : o \in ObjectRecords /\ Fits(n, o)
      BY <1>2, NothingTypes, AbsentFits, UserObjectFits
    <2>3. /\ UNCHANGED <<canary, target, ask, created, failures>>
          /\ edits' \in 0..MaxEdits
      BY <1>2, <1>13 DEF UserCreates, UserDeletes, Collect, bounds
    <2> QED
      BY <1>12, <2>1, <2>2, <2>3
  <1>14. ASSUME NEW n \in Services, UserReleases(n) PROVE WorkInv'
    <2> DEFINE o == [objects[n] EXCEPT !.managed = FALSE, !.selector = {"mine"}]
    <2>1. n \in Names /\ objects[n] \in ObjectRecords /\ Fits(n, objects[n])
      BY <1>1 DEF Services, Names, ObjectsInv
    <2>2. o \in ObjectRecords /\ Fits(n, o)
      BY <2>1, ReleasedFits
    <2>3. /\ Touch(n, o) /\ UNCHANGED <<canary, target, ask, created, failures>>
          /\ edits' \in 0..MaxEdits
      BY <1>2, <1>14 DEF UserReleases
    <2> HIDE DEF o
    <2> QED
      BY <1>12, <2>1, <2>2, <2>3
  <1>15. ASSUME UNCHANGED <<objects, pass>>, created' \in Nat, created' >= created, BoundsInv'
         PROVE  WorkInv'
    <2>1. ObjectsInv'
      BY <1>1, <1>2, <1>15, SameObjects
    <2>2. PassInv'
      <3>1. spec.uid \in Nat /\ spec.uid <= created
        BY <1>1 DEF PassInv, CanaryRecords
      <3>2. spec.uid <= created'
        BY <1>2, <1>15, <3>1
      <3> QED
        BY <1>1, <1>15, <3>2 DEF PassInv, pass
    <2>3. FreshInv'
      BY <1>1, <1>15 DEF FreshInv, pass
    <2> QED
      BY <1>15, <2>1, <2>2, <2>3 DEF WorkInv
  <1>16. ASSUME NEW t \in Targets, ReplaceTarget(t) PROVE WorkInv'
    <2>1. BoundsInv'
      BY <1>1, <1>2, <1>16 DEF ReplaceTarget, BoundsInv
    <2> QED
      BY <1>2, <1>15, <1>16, <2>1 DEF ReplaceTarget
  <1>17. ASSUME NEW p \in Ports, CreateCanary(p) PROVE WorkInv'
    <2>1. /\ created' = created + 1 /\ created < MaxCanaries
          /\ canary' = [uid |-> created', service |-> p]
          /\ UNCHANGED <<objects, target, ask, pass, edits, failures>>
      BY <1>17 DEF CreateCanary
    <2>2. created' \in 0..MaxCanaries /\ created' >= created
      BY <1>2, <2>1
    <2>3. canary' \in CanaryRecords /\ canary'.uid <= created'
      BY <2>1, <2>2, WorkloadAssumption DEF CanaryRecords
    <2>4. BoundsInv'
      BY <1>1, <2>1, <2>2, <2>3 DEF BoundsInv
    <2> QED
      BY <1>15, <2>1, <2>2, <2>4
  <1>18. ASSUME NEW p \in Ports, EditCanary(p) PROVE WorkInv'
    <2>1. /\ canary' = [canary EXCEPT !.service = p] /\ edits' \in 0..MaxEdits
          /\ UNCHANGED <<objects, target, ask, pass, created, failures>>
      BY <1>2, <1>18 DEF EditCanary
    <2>2. canary' \in CanaryRecords /\ canary'.uid = canary.uid
      BY <1>2, <2>1, WorkloadAssumption DEF CanaryRecords
    <2>3. BoundsInv'
      BY <1>1, <2>1, <2>2 DEF BoundsInv
    <2> QED
      BY <1>2, <1>15, <2>1, <2>3
  <1>19. CASE DeleteCanary
    <2>1. /\ canary' = NoCanary /\ ask' = "rest"
          /\ UNCHANGED <<objects, target, pass, bounds>>
      BY <1>19 DEF DeleteCanary
    <2>2. BoundsInv'
      BY <1>1, <1>2, <2>1, NothingTypes DEF BoundsInv, bounds
    <2> QED
      BY <1>2, <1>15, <2>1, <2>2 DEF bounds
  <1>20. CASE UNCHANGED vars
    <2>1. BoundsInv'
      BY <1>1, <1>20 DEF BoundsInv, vars, world, bounds
    <2> QED
      BY <1>2, <1>15, <1>20, <2>1 DEF vars, world, bounds
  <1>21. CASE PassFails \/ \E n \in Names : Panic(n) \/ Refused(n)
    <2>1. /\ Return /\ UNCHANGED <<world, ask, created, edits>>
          /\ failures' \in 0..MaxFailures
      BY <1>2, <1>21 DEF PassFails, Panic, Refused, bounds
    <2> QED
      BY <1>9, <2>1
  <1> QED
    BY <1>4, <1>5, <1>6, <1>7, <1>8, <1>10, <1>11, <1>13, <1>14, <1>16, <1>17, <1>18, <1>19,
       <1>20, <1>21 DEF Next, Calling

LEMMA InvariantImpliesType == WorkInv => TypeOK
  <1> SUFFICES ASSUME WorkInv PROVE TypeOK
    OBVIOUS
  <1>1. ObjectsInv /\ FreshInv /\ PassInv /\ BoundsInv
    BY DEF WorkInv
  <1>2. created \in 0..MaxCanaries /\ MaxCanaries \in Nat
    BY <1>1, WorkloadAssumption DEF BoundsInv
  <1>3. ASSUME NEW n \in Names
        PROVE  /\ objects[n].owner \in 0..MaxCanaries
               /\ objects[n].managed => objects[n].there
               /\ Admissible(n)
    <2>1. objects[n] \in ObjectRecords /\ Fits(n, objects[n])
      BY <1>1 DEF ObjectsInv
    <2>2. objects[n].owner \in Nat /\ objects[n].owner <= created
      BY <2>1 DEF ObjectRecords, Fits, Shaped
    <2>3. objects[n].owner \in 0..MaxCanaries
      BY <1>2, <2>2
    <2> QED
      BY <2>1, <2>3 DEF Fits, Shaped, Admissible, PortPairs
  <1>4. canary.uid \in 0..MaxCanaries /\ canary.service \in PortRecords
    BY <1>1, <1>2 DEF BoundsInv, CanaryRecords
  <1> QED
    BY <1>1, <1>3, <1>4 DEF TypeOK, PassInv, FreshInv, BoundsInv, PassCalls

\* The objects on the server are of their kinds, for any text in targetPort and
\* passes that lose their races with the user: a Service has a port, as the
\* server refuses others (ServedPorts says which), and a Deployment selects
\* its own pods, which the builder alone sees to.
THEOREM WorkloadTypeCorrect == Spec => []TypeOK
  BY InitWorkInv, NextWorkInv, InvariantImpliesType, PTL DEF Spec

-----------------------------------------------------------------------------
(* StableServiceIsKept                                                     *)

\* A pass writes the stable Service in one place, with the one it read and
\* found to be Kanary's still in its hands.
LEMMA StableServiceStep ==
    ASSUME WorkInv, [Next]_vars, pc' # pc, objects["stable"].there
    PROVE  /\ objects'["stable"].there
           /\ ~objects["stable"].managed => objects'["stable"] = objects["stable"]
  <1>1. "stable" \in Names /\ "deployment" \in Names /\ "canary" \in Names
    BY DEF Names
  <1>2. CASE objects' = objects
    BY <1>2
  <1>3. ASSUME NEW n \in Names, Write(n)
        PROVE  /\ objects'["stable"].there
               /\ ~objects["stable"].managed => objects'["stable"] = objects["stable"]
    <2>1. CASE n = "stable"
      BY <1>3, <2>1, WriteObject
    <2>2. CASE n # "stable"
      <3>1. objects'["stable"] = objects["stable"]
        BY <1>1, <1>3, <2>2, WriteObject
      <3> QED
        BY <3>1
    <2> QED
      BY <2>1, <2>2
  <1>4. CASE DeleteDeployment \/ DeleteService
    <2>1. \E n \in {"deployment", "canary"} :
             objects' = [objects EXCEPT ![n] = Absent] /\ created' = created
      BY <1>4 DEF DeleteDeployment, DeleteService, bounds
    <2>2. objects'["stable"] = objects["stable"]
      BY <1>1, <2>1, DeleteObject
    <2> QED
      BY <2>2
  <1> QED
    BY <1>2, <1>3, <1>4
    DEF Next, Calling, Ask, Begin, Get, Panic, Leave, Refused, PassFails, UserCreates, UserDeletes,
        Collect, UserReleases, Touch, ReplaceTarget, CreateCanary, EditCanary, DeleteCanary,
        vars, world, pass

\* "We do not take over user-managed Services" (workload.go:11): whenever the
\* label goes, before the pass reads the Service or after, the pass neither
\* writes nor deletes it.
THEOREM UserServiceIsLeftAlone == Spec => StableServiceIsKept
  <1> DEFINE Kept == LET was == objects["stable"]  is == objects'["stable"]
                     IN  pc' # pc /\ was.there =>
                            is.there /\ (~was.managed => is = was)
  <1>1. WorkInv /\ [Next]_vars => [Kept]_vars
    BY StableServiceStep
  <1>2. Spec => [][Kept]_vars
    BY <1>1, InitWorkInv, NextWorkInv, PTL DEF Spec
  <1> QED
    BY <1>2 DEF StableServiceIsKept

-----------------------------------------------------------------------------
(* CleanedUp                                                               *)

\* The Canary owns neither of the two objects a clean-up deletes.
Disowned == \A n \in {"deployment", "canary"} : objects[n].owner # canary.uid

LEMMA InitCleanInv == Init => CleanInv
  <1> SUFFICES ASSUME Init PROVE CleanInv
    OBVIOUS
  <1>1. canary.uid = 0 /\ pc = Idle
    BY NothingTypes DEF Init
  <1>2. pc # <<"delete", "canary">>
    BY <1>1, CallShape
  <1> QED
    BY <1>1, <1>2 DEF CleanInv

\* Others leave the owner of an object as it is, or the object goes.
LEMMA OwnersStay ==
    ASSUME WorkInv, CleanInv, canary'.uid = canary.uid, UNCHANGED <<ask, pc, spec>>,
           \A n \in Names : objects'[n].owner \in {objects[n].owner, 0}
    PROVE  CleanInv'
  <1>1. objects["deployment"].owner # canary.uid /\ canary.uid # 0 =>
           objects'["deployment"].owner # canary'.uid
    BY DEF Names
  <1>2. Disowned /\ canary.uid # 0 => Disowned'
    BY DEF Names, Disowned
  <1>3. pc = <<"delete", "canary">> => spec.uid # 0
    BY CallShape DEF WorkInv, PassInv
  <1> QED
    BY <1>1, <1>2, <1>3 DEF CleanInv, Disowned

\* A pass that is not about to delete the canary Service.
LEMMA NotDeleting ==
    ASSUME pc' # <<"delete", "canary">>,
           ask' = "rest" /\ canary'.uid # 0 =>
              Disowned' /\ (pc'[1] \in {"get", "write"} => spec'.uid # canary'.uid)
    PROVE  CleanInv'
  BY DEF CleanInv, Disowned

LEMMA NextCleanInv == WorkInv /\ CleanInv /\ [Next]_vars => CleanInv'
  <1> SUFFICES ASSUME WorkInv, CleanInv, [Next]_vars PROVE CleanInv'
    OBVIOUS
  <1>1. ask = "rest" /\ canary.uid # 0 =>
           Disowned /\ (pc[1] \in {"get", "write"} => spec.uid # canary.uid)
    BY DEF CleanInv, Disowned
  <1>2. ASSUME Return, UNCHANGED <<objects, canary, ask>> PROVE CleanInv'
    <2>1. pc' = Idle
      BY <1>2 DEF Return
    <2>2. pc' # <<"delete", "canary">> /\ pc'[1] \notin {"get", "write"}
      BY <2>1, CallShape
    <2>3. ask' = "rest" /\ canary'.uid # 0 => Disowned'
      BY <1>1, <1>2 DEF Disowned
    <2> QED
      BY <2>2, <2>3, NotDeleting
  <1>3. ASSUME NEW a \in {"ensure", "cleanup"}, Ask(a) PROVE CleanInv'
    <2>1. ask' # "rest" /\ pc' = Idle
      BY <1>3 DEF Ask, pass
    <2> QED
      BY <2>1, CallShape, NotDeleting
  <1>4. CASE Begin
    <2>1. ask' # "rest" /\ pc' \in {<<"get", "deployment">>, <<"delete", "deployment">>}
      BY <1>4 DEF Begin
    <2> QED
      BY <2>1, NotDeleting
  <1>5. ASSUME NEW n \in Names, Get(n) PROVE CleanInv'
    <2>1. /\ pc = <<"get", n>> /\ pc' = <<"write", n>>
          /\ UNCHANGED <<objects, canary, ask, spec>>
      BY <1>5 DEF Get, world
    <2>2. pc[1] = "get" /\ pc' # <<"delete", "canary">>
      BY <2>1
    <2>3. ask' = "rest" /\ canary'.uid # 0 => Disowned' /\ spec'.uid # canary'.uid
      BY <1>1, <2>1, <2>2 DEF Disowned
    <2> QED
      BY <2>2, <2>3, NotDeleting
  <1>6. ASSUME NEW n \in Names, Leave(n) \/ Write(n) PROVE CleanInv'
    <2>1. /\ pc = <<"write", n>> /\ Proceed /\ UNCHANGED <<canary, ask, created>>
          /\ created \in Nat /\ PassInv
      BY <1>6, WorkloadAssumption DEF Leave, Write, world, bounds, WorkInv, BoundsInv
    <2>2. pc' = Idle \/ (pc'[1] = "get" /\ spec' = spec)
      BY <2>1, ProceedType
    <2>3. pc[1] = "write" /\ pc' # <<"delete", "canary">>
      BY <2>1, <2>2, CallShape
    <2>4. ask = "rest" /\ canary.uid # 0 => Disowned /\ spec.uid # canary.uid
      BY <1>1, <2>3
    <2>5. \A m \in Names : objects'[m].owner \in {objects[m].owner, spec.uid}
      <3>1. CASE Leave(n)
        BY <3>1 DEF Leave, world
      <3>2. CASE Write(n)
        BY <3>2, WriteObject
      <3> QED
        BY <1>6, <3>1, <3>2
    <2>6. Disowned /\ spec.uid # canary.uid => Disowned'
      BY <2>1, <2>5 DEF Disowned, Names
    <2>7. pc'[1] \in {"get", "write"} => spec' = spec
      BY <2>2, CallShape
    <2> QED
      BY <2>1, <2>3, <2>4, <2>6, <2>7, NotDeleting
  <1>7. CASE DeleteDeployment
    <2>1. /\ pc = <<"delete", "deployment">> /\ pc' = <<"delete", "canary">>
          /\ objects' = [objects EXCEPT !["deployment"] = Absent]
          /\ UNCHANGED <<canary, ask, spec, created>>
      BY <1>7 DEF DeleteDeployment, bounds
    <2>2. /\ objects'["deployment"].owner = 0
          /\ objects'["canary"].owner = objects["canary"].owner
      BY <2>1, DeleteObject, NothingTypes DEF Names
    <2>3. spec.uid # 0
      BY <2>1, CallShape DEF WorkInv, PassInv
    <2>4. canary.uid # 0 /\ Disowned => Disowned'
      BY <2>1, <2>2 DEF Disowned
    <2>5. pc'[1] = "delete"
      BY <2>1
    <2> QED
      BY <1>1, <2>1, <2>2, <2>3, <2>4, <2>5 DEF CleanInv, Disowned
  <1>8. CASE DeleteService
    <2>1. /\ pc = <<"delete", "canary">> /\ pc' = Idle
          /\ objects' = [objects EXCEPT !["canary"] = Absent]
          /\ ask' = ask \/ spec.uid = canary.uid
          /\ UNCHANGED <<canary, created>>
      BY <1>8 DEF DeleteService, Return, bounds
    <2>2. /\ objects'["canary"].owner = 0
          /\ objects'["deployment"].owner = objects["deployment"].owner
      BY <2>1, DeleteObject, NothingTypes DEF Names
    <2>3. spec.uid = canary.uid => objects["deployment"].owner # canary.uid
      BY <2>1 DEF CleanInv
    <2>4. ask' = "rest" /\ canary'.uid # 0 => Disowned'
      BY <1>1, <2>1, <2>2, <2>3 DEF Disowned
    <2> QED
      BY <2>1, <2>4, CallShape, NotDeleting
  <1>9. ASSUME NEW n \in Names, NEW o \in ObjectRecords, Fits(n, o), Touch(n, o),
               o.owner \in {objects[n].owner, 0}, UNCHANGED <<canary, ask, created>>
        PROVE  CleanInv'
    <2>1. \A m \in Names : objects'[m].owner \in {objects[m].owner, 0}
      BY <1>9, TouchKeeps
    <2> QED
      BY <1>9, <2>1, OwnersStay DEF Touch
  <1>10. created \in Nat /\ ObjectsInv /\ PassInv /\ BoundsInv
    BY WorkloadAssumption DEF WorkInv, BoundsInv
  <1>11. ASSUME NEW n \in Names, UserCreates(n) \/ UserDeletes(n) \/ Collect(n)
         PROVE  CleanInv'
    <2>1. \E o \in {UserObject(n), Absent} : Touch(n, o)
      BY <1>11 DEF UserCreates, UserDeletes, Collect
    <2>2. \A o \in {UserObject(n), Absent} : o \in ObjectRecords /\ Fits(n, o) /\ o.owner = 0
      BY <1>10, NothingTypes, AbsentFits, UserObjectFits
    <2>3. UNCHANGED <<canary, ask, created>>
      BY <1>11 DEF UserCreates, UserDeletes, Collect, bounds
    <2> QED
      BY <1>9, <2>1, <2>2, <2>3
  <1>12. ASSUME NEW n \in Services, UserReleases(n) PROVE CleanInv'
    <2> DEFINE o == [objects[n] EXCEPT !.managed = FALSE, !.selector = {"mine"}]
    <2>1. n \in Names /\ objects[n] \in ObjectRecords /\ Fits(n, objects[n])
      BY <1>10 DEF Services, Names, ObjectsInv
    <2>2. o \in ObjectRecords /\ Fits(n, o) /\ o.owner = objects[n].owner
      BY <2>1, ReleasedFits
    <2>3. Touch(n, o) /\ UNCHANGED <<canary, ask, created>>
      BY <1>12 DEF UserReleases
    <2> HIDE DEF o
    <2> QED
      BY <1>9, <2>1, <2>2, <2>3
  <1>13. CASE UNCHANGED <<objects, ask, pass>> /\ canary'.uid = canary.uid
    BY <1>13, OwnersStay DEF pass
  <1>14. ASSUME NEW t \in Targets, ReplaceTarget(t) PROVE CleanInv'
    BY <1>13, <1>14 DEF ReplaceTarget
  <1>15. ASSUME NEW p \in Ports, EditCanary(p) PROVE CleanInv'
    BY <1>10, <1>13, <1>15 DEF EditCanary, BoundsInv, CanaryRecords
  <1>16. ASSUME NEW p \in Ports, CreateCanary(p) PROVE CleanInv'
    <2>1. /\ canary'.uid = created + 1 /\ UNCHANGED <<objects, pc, spec>>
      BY <1>16 DEF CreateCanary, pass
    <2>2. \A n \in Names : objects[n].owner \in Nat /\ objects[n].owner <= created
      BY <1>10 DEF ObjectsInv, ObjectRecords, Fits, Shaped
    <2>3. \A n \in Names : objects'[n].owner # canary'.uid
      BY <1>10, <2>1, <2>2
    <2>4. spec.uid \in Nat /\ spec.uid <= created
      BY <1>10 DEF PassInv, CanaryRecords
    <2>5. spec'.uid # canary'.uid
      BY <1>10, <2>1, <2>4
    <2> QED
      BY <2>3, <2>5 DEF CleanInv, Names
  <1>17. CASE DeleteCanary
    <2>1. canary'.uid = 0 /\ UNCHANGED <<pc, spec>>
      BY <1>17, NothingTypes DEF DeleteCanary, pass
    <2>2. pc = <<"delete", "canary">> => spec.uid # 0
      BY <1>10, CallShape DEF PassInv
    <2> QED
      BY <2>1, <2>2 DEF CleanInv
  <1>18. CASE PassFails \/ \E n \in Names : Panic(n) \/ Refused(n)
    BY <1>2, <1>18 DEF PassFails, Panic, Refused, world
  <1>19. CASE UNCHANGED vars
    BY <1>13, <1>19 DEF vars, world
  <1> QED
    BY <1>3, <1>4, <1>5, <1>6, <1>7, <1>8, <1>11, <1>12, <1>14, <1>15, <1>16, <1>17, <1>18, <1>19
    DEF Next, Calling

\* A clean-up that is done stays done: whoever deleted, created or released
\* objects meanwhile, and whatever passes of Canaries deleted before are still
\* running, no Deployment and no canary Service of this Canary is there until
\* it asks for them again.
THEOREM CleanupIsComplete == Spec => []CleanedUp
  <1>1. CleanInv => CleanedUp
    BY DEF CleanInv, CleanedUp
  <1> QED
    BY <1>1, InitWorkInv, NextWorkInv, InitCleanInv, NextCleanInv, PTL DEF Spec
==============================================================================
