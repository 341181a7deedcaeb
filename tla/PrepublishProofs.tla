-------------------------- MODULE PrepublishProofs --------------------------
(***************************************************************************)
(* Prepublish, for any events, classes, contexts and overlapping calls,    *)
(* and whatever metadata objects and partial metadata events are given.    *)
(***************************************************************************)
EXTENDS Prepublish, TLAPS

Calls ==
    [events : Batches \cup {<<>>}, context : Contexts \cup {Absent},
     stream : Names \cup Ids \cup None]

Complete(m) == \A key \in Keys : m[key] # Absent

(* What the variables hold. *)
ShapeInv ==
    /\ class \in Classes
    /\ holder \in [Events -> Objects \cup {Absent}]
    /\ metadata \in [Objects -> Metadata \cup {Absent}]
    /\ \A e \in Events : holder[e] # Absent => Exists(holder[e])
    /\ given \in [Events -> SUBSET Keys]
    /\ overwritten \subseteq Events
    /\ stage \in [Publications -> Stages]
    /\ call \in [Publications -> Calls]

(* The objects of a publication are made, whole, by its prepare(), after   *)
(* those of the constructors; one without correlation id has no origin.    *)
ObjectInv ==
    /\ \A e \in Events : holder[e] = Absent => ~Exists(e)
    /\ \A p \in Publications, e \in Events :
        Exists(<<p, e>>) => /\ Complete(metadata[<<p, e>>])
                            /\ stage[p] \notin {"idle", "preparing"}
                            /\ holder[e] # Absent
    /\ \A o \in Objects :
        Exists(o) /\ metadata[o].correlation_id = Absent => metadata[o].origin \in None

(* The correlation id of an event that was constructed without one.        *)
OriginOf(m) ==
    \/ m.origin = Undefined
    \/ /\ m.origin \in Publications
       /\ stage[m.origin] \notin {"idle", "preparing"}
       /\ m.correlation_id = call[m.origin].context.correlation

(* What was not given is missing until prepare() computes it.              *)
EventInv(e) ==
    /\ ~Prepared(e) => \A key \in Keys \ given[e] :
                            key # "version" => MetadataOf(e)[key] = Absent
    /\ Prepared(e) /\ "type" \notin given[e] /\ e \notin overwritten =>
        \/ MetadataOf(e).version \in None
        \/ MetadataOf(e).type = <<e, MetadataOf(e).version>>
    /\ Prepared(e) /\ "correlation_id" \notin given[e] => OriginOf(MetadataOf(e))

EventsInv == \A e \in Events : holder[e] # Absent => EventInv(e)

(* The events of a call exist, are prepared, and then valid; its stream is *)
(* the one given until the events are valid, and then, if none was, the    *)
(* correlation id of the first of them.                                    *)
CallInv(p) ==
    /\ stage[p] # "idle" =>
        call[p].events \in Batches /\ call[p].context \in Contexts
    /\ stage[p] = "preparing" =>
        \A e \in InBatch(call[p].events) : holder[e] # Absent
    /\ stage[p] \in {"validating", "writing", "written"} =>
        \A e \in InBatch(call[p].events) : Prepared(e)
    /\ stage[p] = "writing" =>
        \A e \in InBatch(call[p].events) : class[e].sound /\ ValidOnceMore(e, MetadataOf(e))
    /\ stage[p] \in {"preparing", "validating"} => call[p].stream \in Names \cup {Absent}
    /\ stage[p] \in {"writing", "written"} =>
        call[p].stream \in Names \cup {MetadataOf(Head(call[p].events)).correlation_id}

(* What was stored is as it was validated, and as its event and its call   *)
(* still are.                                                              *)
StoredFrom(s) ==
    /\ s.event \in Events /\ s.by \in Publications /\ s.metadata \in Metadata
    /\ Prepared(s.event) /\ stage[s.by] = "written"
    /\ class[s.event].sound /\ ValidOnceMore(s.event, s.metadata)
    /\ "type" \notin given[s.event] /\ s.event \notin overwritten =>
        s.metadata.type = <<s.event, s.metadata.version>>
    /\ s.stream = call[s.by].stream
    /\ s.metadata.correlation_id = MetadataOf(s.event).correlation_id
    /\ s.metadata.origin = MetadataOf(s.event).origin

StoredInv == \A s \in stored : StoredFrom(s)

Inv ==
    /\ ShapeInv /\ ObjectInv /\ EventsInv
    /\ \A p \in Publications : CallInv(p)
    /\ StoredInv
-----------------------------------------------------------------------------
LEMMA Apart ==
    /\ Absent \notin Objects /\ Absent \notin Metadata /\ Undefined # Absent
    /\ \A x \in None : x \notin Nat /\ x \notin Publications /\ x \notin Events \X Nat
    /\ \A p \in Publications, e \in Events : <<p, e>> \in Objects /\ <<p, e>> \notin Events
    /\ \A e \in Events : e \in Objects
BY PrepublishAssumption DEF Objects, None

LEMMA BatchEvents ==
    ASSUME NEW b \in Batches
    PROVE  /\ b \in Seq(Events) /\ b # <<>>
           /\ InBatch(b) \subseteq Events
           /\ Head(b) \in InBatch(b)
<1>1. b \in Seq(Events) /\ b # <<>>  BY PrepublishAssumption
<1>2. InBatch(b) \subseteq Events  BY <1>1 DEF InBatch
<1>3. 1 \in DOMAIN b /\ Head(b) = b[1]  BY <1>1
<1> QED  BY <1>1, <1>2, <1>3 DEF InBatch

(* Objects with these keys, and the version written into them. *)
LEMMA VersionedIs ==
    ASSUME ShapeInv, NEW e \in Events, NEW m \in Metadata
    PROVE  /\ Versioned(e, m) \in Metadata
           /\ \A key \in Keys : key # "version" => Versioned(e, m)[key] = m[key]
           /\ m.version # Absent => Versioned(e, m).version # Absent
           /\ class[e].version = Absent => Versioned(e, m) = m
<1>1. CASE class[e].version = Absent
  BY <1>1 DEF Versioned
<1>2. CASE class[e].version # Absent
  <2>1. class[e].version \in Nat
    BY <1>2, PrepublishAssumption DEF ShapeInv
  <2>2. [m EXCEPT !.version = class[e].version] \in Metadata
    BY <2>1 DEF Metadata
  <2> QED  BY <1>2, <2>1, <2>2 DEF Versioned, Metadata, Keys
<1> QED  BY <1>1, <1>2

LEMMA SpreadIs ==
    ASSUME NEW own \in Metadata, NEW cloud \in Metadata
    PROVE  /\ Spread(cloud, own) \in Metadata
           /\ \A key \in Keys :
                Spread(cloud, own)[key] = IF own[key] = Absent THEN cloud[key] ELSE own[key]
<1>1. DOMAIN own = Keys  BY DEF Metadata, Keys
<1>2. Spread(cloud, own) = [key \in Keys |-> IF own[key] = Absent THEN cloud[key] ELSE own[key]]
  BY <1>1 DEF Spread
<1>3. \A key \in Keys :
        Spread(cloud, own)[key] = IF own[key] = Absent THEN cloud[key] ELSE own[key]
  BY <1>2
<1>4. Spread(cloud, own) =
        [correlation_id |-> IF own.correlation_id = Absent
                            THEN cloud.correlation_id ELSE own.correlation_id,
         version |-> IF own.version = Absent THEN cloud.version ELSE own.version,
         type |-> IF own.type = Absent THEN cloud.type ELSE own.type,
         origin |-> IF own.origin = Absent THEN cloud.origin ELSE own.origin]
  BY <1>2 DEF Keys
<1>5. Spread(cloud, own) \in Metadata  BY <1>4 DEF Metadata
<1> QED  BY <1>3, <1>5

(* What is complete is not changed. *)
LEMMA SpreadKeeps ==
    ASSUME NEW own \in Metadata, NEW cloud, Complete(own)
    PROVE  Spread(cloud, own) = own
<1>1. DOMAIN own = Keys /\ own = [key \in Keys |-> own[key]]  BY DEF Metadata, Keys
<1>2. Spread(cloud, own) = [key \in Keys |-> IF own[key] = Absent THEN cloud[key] ELSE own[key]]
  BY <1>1 DEF Spread
<1>3. \A key \in Keys : own[key] # Absent  BY DEF Complete
<1> QED  BY <1>1, <1>2, <1>3

(* What prepare() makes of an event. *)
LEMMA FillsWhole ==
    ASSUME Inv, NEW p \in Publications, NEW e \in Events,
           holder[e] # Absent, call[p].context \in Contexts
    PROVE  /\ MetadataOf(e) \in Metadata
           /\ Fills(p, e) \in Metadata
           /\ Complete(Fills(p, e))
           /\ \A key \in Keys :
                MetadataOf(e)[key] # Absent => Fills(p, e)[key] = MetadataOf(e)[key]
           /\ MetadataOf(e).type = Absent =>
                \/ Fills(p, e).version \in None
                \/ Fills(p, e).type = <<e, Fills(p, e).version>>
           /\ MetadataOf(e).origin = Absent => Fills(p, e).origin = p
           /\ MetadataOf(e).correlation_id = Absent =>
                Fills(p, e).correlation_id = call[p].context.correlation
           /\ Prepared(e) => Fills(p, e) = MetadataOf(e)
<1> DEFINE own == MetadataOf(e)
           cloud == CloudEventMetadata(e, p)
<1>1. own \in Metadata
  BY DEF Inv, ShapeInv, MetadataOf, Exists
<1>2. Version(own) \in Nat /\ Version(own) # Absent /\ (own.version \notin None => Version(own) = own.version)
  BY <1>1, Apart DEF Version, Metadata, None
<1>3. /\ cloud.correlation_id = call[p].context.correlation
      /\ cloud.correlation_id \in Ids \cup {Undefined}
      /\ cloud.version = Version(own)
      /\ cloud.type = <<e, Version(own)>> /\ cloud.type \in Events \X Nat
      /\ cloud.origin = p
      /\ cloud \in Metadata
  BY <1>2, PrepublishAssumption DEF CloudEventMetadata, Metadata, None
<1>4. /\ Fills(p, e) \in Metadata
      /\ \A key \in Keys :
            Fills(p, e)[key] = IF own[key] = Absent THEN cloud[key] ELSE own[key]
  BY <1>1, <1>3, SpreadIs DEF Fills
<1>5. \A key \in Keys : cloud[key] # Absent
  <2>1. cloud.correlation_id # Absent
    BY <1>3, PrepublishAssumption DEF None
  <2>2. cloud.version # Absent /\ cloud.type # Absent /\ cloud.origin # Absent
    BY <1>2, <1>3, Apart DEF None
  <2> QED  BY <2>1, <2>2 DEF Keys
<1>6. Complete(Fills(p, e))
  BY <1>4, <1>5 DEF Complete
<1>7. ASSUME own.type = Absent
      PROVE  Fills(p, e).version \in None \/ Fills(p, e).type = <<e, Fills(p, e).version>>
  <2>1. Fills(p, e).type = <<e, Version(own)>>
    BY <1>3, <1>4, <1>7 DEF Keys
  <2>2. Fills(p, e).version = IF own.version = Absent THEN Version(own) ELSE own.version
    BY <1>3, <1>4 DEF Keys
  <2>3. own.version \in None => own.version = Absent \/ Fills(p, e).version \in None
    BY <2>2
  <2> QED  BY <1>2, <2>1, <2>2, <2>3
<1>8. /\ own.origin = Absent => Fills(p, e).origin = p
      /\ own.correlation_id = Absent => Fills(p, e).correlation_id = call[p].context.correlation
  BY <1>3, <1>4 DEF Keys
<1>9. Prepared(e) => Fills(p, e) = own
  <2> SUFFICES ASSUME Prepared(e) PROVE Fills(p, e) = own
    OBVIOUS
  <2>1. PICK q \in Publications : holder[e] = <<q, e>>
    BY DEF Prepared
  <2>2. Complete(own)
    BY <2>1 DEF Inv, ShapeInv, ObjectInv, MetadataOf
  <2> QED  BY <1>1, <2>2, SpreadKeeps DEF Fills
<1> QED  BY <1>1, <1>4, <1>6, <1>7, <1>8, <1>9
-----------------------------------------------------------------------------
LEMMA InvStart == Init => Inv
<1> SUFFICES ASSUME Init PROVE Inv
  OBVIOUS
<1>1. \A o \in Objects : ~Exists(o)
  BY DEF Init, Exists
<1>2. NoCall \in Calls
  BY DEF NoCall, Calls, None
<1>3. ShapeInv
  BY <1>2 DEF Init, ShapeInv, Stages
<1>4. ObjectInv
  BY <1>1, Apart DEF ObjectInv
<1>5. EventsInv /\ StoredInv /\ \A p \in Publications : CallInv(p)
  BY DEF Init, EventsInv, StoredInv, CallInv
<1> QED  BY <1>3, <1>4, <1>5 DEF Inv

(* What no step of anybody undoes: a prepared event keeps its metadata but *)
(* for an overwritten version, and a publication its call.                 *)
KeptEvent(e) ==
    /\ holder'[e] # Absent /\ Prepared(e)' /\ given'[e] = given[e]
    /\ MetadataOf(e)' \in Metadata
    /\ \A key \in Keys : key # "version" => MetadataOf(e)'[key] = MetadataOf(e)[key]
    /\ e \notin overwritten' => MetadataOf(e)' = MetadataOf(e)

Kept ==
    /\ overwritten \subseteq overwritten' /\ class' = class
    /\ \A e \in Events : holder[e] # Absent => holder'[e] # Absent /\ given'[e] = given[e]
    /\ \A e \in Events : Prepared(e) => KeptEvent(e)

KeptCall(p) ==
    /\ stage'[p] # "idle" /\ (stage[p] # "preparing" => stage'[p] # "preparing")
    /\ call'[p].events = call[p].events /\ call'[p].context = call[p].context

LEMMA PreparedExists ==
    ASSUME Inv, NEW e \in Events, Prepared(e)
    PROVE  /\ holder[e] # Absent /\ holder[e] \in Objects /\ holder[e] \notin Events
           /\ MetadataOf(e) \in Metadata /\ Complete(MetadataOf(e))
<1>1. PICK p \in Publications : holder[e] = <<p, e>>
  BY DEF Prepared
<1>2. holder[e] \in Objects /\ holder[e] \notin Events /\ holder[e] # Absent
  BY <1>1, Apart
<1>3. MetadataOf(e) \in Metadata /\ Complete(MetadataOf(e))
  BY <1>1, <1>2 DEF Inv, ShapeInv, ObjectInv, MetadataOf, Exists
<1> QED  BY <1>2, <1>3

(* What remains valid when a version is overwritten. *)
LEMMA ValidStays ==
    ASSUME NEW e \in Events, NEW m \in Metadata, NEW n \in Metadata,
           ValidOnceMore(e, m), overwritten \subseteq overwritten',
           \A key \in Keys : key # "version" => n[key] = m[key],
           e \notin overwritten' => n = m
    PROVE  ValidOnceMore(e, n)'
<1>1. CASE e \notin overwritten'
  BY <1>1 DEF ValidOnceMore, IsValid
<1>2. CASE e \in overwritten'
  <2>1. /\ m.correlation_id \notin None /\ m.type \notin None /\ m.origin \notin None
    BY DEF ValidOnceMore, IsValid, Metadata
  <2>2. n.correlation_id \notin None /\ n.type \notin None /\ n.origin \notin None
    BY <2>1 DEF Keys
  <2>3. IsValid([n EXCEPT !.version = 1])
    BY <2>2 DEF IsValid, Metadata
  <2> QED  BY <1>2, <2>3 DEF ValidOnceMore, IsValid
<1> QED  BY <1>1, <1>2

(* A call that goes on, or stays, over events that are kept. *)
LEMMA CallStays ==
    ASSUME Inv, Kept, NEW p \in Publications, stage'[p] = stage[p], call'[p] = call[p]
    PROVE  CallInv(p)'
<1>1. CallInv(p)
  BY DEF Inv
<1>2. stage[p] # "idle" => /\ InBatch(call[p].events) \subseteq Events
                           /\ Head(call[p].events) \in InBatch(call[p].events)
  BY <1>1, BatchEvents DEF CallInv
<1>3. InBatch(call[p].events)' = InBatch(call[p].events)
  BY DEF InBatch
<1>4. stage[p] = "preparing" => \A e \in InBatch(call[p].events) : holder'[e] # Absent
  BY <1>1, <1>2 DEF CallInv, Kept
<1>5. stage[p] \in {"validating", "writing", "written"} =>
        \A e \in InBatch(call[p].events) : Prepared(e) /\ Prepared(e)' /\ KeptEvent(e)
  BY <1>1, <1>2 DEF CallInv, Kept, KeptEvent
<1>6. stage[p] = "writing" => \A e \in InBatch(call[p].events) :
        class'[e].sound /\ ValidOnceMore(e, MetadataOf(e))'
  <2> SUFFICES ASSUME stage[p] = "writing", NEW e \in InBatch(call[p].events)
               PROVE  class'[e].sound /\ ValidOnceMore(e, MetadataOf(e))'
    OBVIOUS
  <2>1. e \in Events /\ KeptEvent(e) /\ MetadataOf(e) \in Metadata
    BY <1>2, <1>5, PreparedExists
  <2>2. class[e].sound /\ ValidOnceMore(e, MetadataOf(e)) /\ class' = class
    BY <1>1 DEF CallInv, Kept
  <2>3. /\ MetadataOf(e)' \in Metadata
        /\ \A key \in Keys : key # "version" => MetadataOf(e)'[key] = MetadataOf(e)[key]
        /\ e \notin overwritten' => MetadataOf(e)' = MetadataOf(e)
        /\ overwritten \subseteq overwritten'
    BY <2>1 DEF KeptEvent, Kept
  <2>4. \A n \in Metadata :
            /\ \A key \in Keys : key # "version" => n[key] = MetadataOf(e)[key]
            /\ e \notin overwritten' => n = MetadataOf(e)
            => IsValid(n) \/ (e \in overwritten' /\ IsValid([n EXCEPT !.version = 1]))
    BY <2>1, <2>2, <2>3, ValidStays DEF ValidOnceMore, IsValid
  <2> QED  BY <2>2, <2>3, <2>4 DEF ValidOnceMore, IsValid
<1>7. stage[p] \in {"writing", "written"} =>
        MetadataOf(Head(call[p].events))'.correlation_id
            = MetadataOf(Head(call[p].events)).correlation_id
  BY <1>2, <1>5 DEF KeptEvent, Keys, MetadataOf
<1> QED  BY <1>1, <1>3, <1>4, <1>5, <1>6, <1>7 DEF CallInv

LEMMA StoredStays ==
    ASSUME Inv, Kept, NEW s \in stored, stage'[s.by] = stage[s.by], call'[s.by] = call[s.by]
    PROVE  StoredFrom(s)'
<1>1. StoredFrom(s)
  BY DEF Inv, StoredInv
<1>2. KeptEvent(s.event) /\ class' = class /\ overwritten \subseteq overwritten'
  BY <1>1 DEF Kept, StoredFrom
<1>3. class'[s.event].sound /\ ValidOnceMore(s.event, s.metadata)'
  BY <1>1, <1>2 DEF StoredFrom, ValidOnceMore, IsValid
<1>4. "type" \notin given'[s.event] /\ s.event \notin overwritten' =>
        s.metadata.type = <<s.event, s.metadata.version>>
  BY <1>1, <1>2 DEF StoredFrom, KeptEvent
<1>5. /\ MetadataOf(s.event)'.correlation_id = MetadataOf(s.event).correlation_id
      /\ MetadataOf(s.event)'.origin = MetadataOf(s.event).origin
  BY <1>2 DEF KeptEvent, Keys
<1> QED  BY <1>1, <1>2, <1>3, <1>4, <1>5 DEF StoredFrom, KeptEvent
-----------------------------------------------------------------------------
(* An event whose object is kept, but for a version. *)
LEMMA EventStays ==
    ASSUME Inv, NEW f \in Events, holder[f] # Absent,
           holder'[f] = holder[f], given'[f] = given[f], overwritten \subseteq overwritten',
           \A key \in Keys : key # "version" => MetadataOf(f)'[key] = MetadataOf(f)[key],
           Prepared(f) /\ f \notin overwritten' => MetadataOf(f)' = MetadataOf(f),
           \A p \in Publications : stage[p] \notin {"idle", "preparing"} =>
                stage'[p] \notin {"idle", "preparing"} /\ call'[p].context = call[p].context
    PROVE  EventInv(f)'
<1>1. EventInv(f) /\ (Prepared(f)' <=> Prepared(f))
  BY DEF Inv, EventsInv, Prepared
<1>2. ~Prepared(f)' => \A key \in Keys \ given'[f] :
        key # "version" => MetadataOf(f)'[key] = Absent
  BY <1>1 DEF EventInv
<1>3. Prepared(f)' /\ "type" \notin given'[f] /\ f \notin overwritten' =>
        \/ MetadataOf(f)'.version \in None
        \/ MetadataOf(f)'.type = <<f, MetadataOf(f)'.version>>
  BY <1>1 DEF EventInv
<1>4. /\ MetadataOf(f)'.origin = MetadataOf(f).origin
      /\ MetadataOf(f)'.correlation_id = MetadataOf(f).correlation_id
  BY DEF Keys
<1>5. Prepared(f)' /\ "correlation_id" \notin given'[f] => OriginOf(MetadataOf(f))'
  BY <1>1, <1>4 DEF EventInv, OriginOf
<1> QED  BY <1>2, <1>3, <1>5 DEF EventInv

(* Constructing e over the object o, with the content m. *)
LEMMA ConstructStep ==
    ASSUME Inv, NEW e \in Events, NEW o \in Objects, NEW m \in Metadata,
           Constructs(e, o, m), m.correlation_id = Absent => m.origin \in None,
           IF Exists(o) THEN m = metadata[o] ELSE o = e
    PROVE  Inv'
<1>1. /\ metadata' \in [Objects -> Metadata \cup {Absent}]
      /\ metadata'[o] = Versioned(e, m) /\ metadata'[o] \in Metadata /\ metadata'[o] # Absent
      /\ \A x \in Objects : x # o => metadata'[x] = metadata[x]
  BY VersionedIs, Apart DEF Constructs, Inv, ShapeInv
<1>2. /\ holder' \in [Events -> Objects \cup {Absent}]
      /\ holder[e] = Absent /\ holder'[e] = o /\ holder'[e] # Absent
      /\ \A f \in Events : f # e => holder'[f] = holder[f]
  BY Apart DEF Constructs, Inv, ShapeInv
<1>3. /\ given' \in [Events -> SUBSET Keys]
      /\ given'[e] = {key \in Keys : m[key] # Absent}
      /\ \A f \in Events : f # e => given'[f] = given[f]
  BY DEF Constructs, Inv, ShapeInv
<1>4. /\ overwritten' \subseteq Events /\ overwritten \subseteq overwritten'
      /\ class[e].version # Absent =>
            \A f \in Events : holder[f] = o /\ Prepared(f) => f \in overwritten'
  BY DEF Constructs, Inv, ShapeInv
<1>5. UNCHANGED <<class, stage, call, stored>>
  BY DEF Constructs
<1>6. \A x \in Objects : Exists(x) =>
        /\ Exists(x)'
        /\ metadata[x] \in Metadata /\ metadata'[x] \in Metadata
        /\ \A key \in Keys : /\ key # "version" => metadata'[x][key] = metadata[x][key]
                             /\ metadata[x][key] # Absent => metadata'[x][key] # Absent
        /\ x # o \/ class[e].version = Absent => metadata'[x] = metadata[x]
  <2> SUFFICES ASSUME NEW x \in Objects, Exists(x)
               PROVE  /\ Exists(x)'
                      /\ metadata[x] \in Metadata /\ metadata'[x] \in Metadata
                      /\ \A key \in Keys :
                            /\ key # "version" => metadata'[x][key] = metadata[x][key]
                            /\ metadata[x][key] # Absent => metadata'[x][key] # Absent
                      /\ x # o \/ class[e].version = Absent => metadata'[x] = metadata[x]
    OBVIOUS
  <2>1. metadata[x] \in Metadata
    BY DEF Inv, ShapeInv, Exists
  <2>2. CASE x # o
    BY <1>1, <2>1, <2>2 DEF Exists
  <2>3. CASE x = o
    <3>1. metadata'[x] = Versioned(e, metadata[x])
      BY <1>1, <2>3
    <3> QED  BY <1>1, <2>1, <2>3, <3>1, VersionedIs DEF Inv, Exists
  <2> QED  BY <2>2, <2>3
<1>7. \A f \in Events : holder[f] # Absent =>
        f # e /\ holder[f] \in Objects /\ Exists(holder[f]) /\ holder'[f] = holder[f]
  BY <1>2 DEF Inv, ShapeInv
<1>8. \A f \in Events : Prepared(f) => holder[f] # Absent
  BY PreparedExists
<1>9. Kept
  <2>1. ASSUME NEW f \in Events, Prepared(f) PROVE KeptEvent(f)
    <3>1. f # e /\ holder[f] \in Objects /\ Exists(holder[f]) /\ holder'[f] = holder[f]
      BY <1>7, <1>8, <2>1
    <3>2. Prepared(f)' /\ holder'[f] # Absent /\ given'[f] = given[f]
      BY <1>3, <1>8, <2>1, <3>1 DEF Prepared
    <3>3. f \notin overwritten' => metadata'[holder[f]] = metadata[holder[f]]
      BY <1>4, <1>6, <2>1, <3>1
    <3> QED  BY <1>6, <3>1, <3>2, <3>3 DEF KeptEvent, MetadataOf
  <2>2. \A f \in Events : holder[f] # Absent => holder'[f] # Absent /\ given'[f] = given[f]
    BY <1>3, <1>7
  <2> QED  BY <1>4, <1>5, <2>1, <2>2 DEF Kept
<1>10. ShapeInv'
  <2>1. \A f \in Events : holder'[f] # Absent => metadata'[holder'[f]] # Absent
    BY <1>1, <1>2, <1>6, <1>7 DEF Exists
  <2> QED  BY <1>1, <1>2, <1>3, <1>4, <1>5, <2>1 DEF Inv, ShapeInv, Exists
<1>11. ObjectInv'
  <2>1. ASSUME NEW f \in Events, holder'[f] = Absent PROVE ~Exists(f)'
    <3>1. f # e /\ holder[f] = Absent /\ f \in Objects
      BY <1>2, <2>1, Apart
    <3>2. ~Exists(f) /\ f # o
      BY <3>1 DEF Inv, ObjectInv
    <3> QED  BY <1>1, <3>1, <3>2 DEF Exists
  <2>2. ASSUME NEW p \in Publications, NEW f \in Events, Exists(<<p, f>>)'
        PROVE  /\ Complete(metadata[<<p, f>>])' /\ stage'[p] \notin {"idle", "preparing"}
               /\ holder'[f] # Absent
    <3>1. <<p, f>> \in Objects /\ <<p, f>> # e
      BY Apart
    <3>2. Exists(<<p, f>>)
      BY <1>1, <2>2, <3>1 DEF Exists
    <3>3. Complete(metadata[<<p, f>>])'
      BY <1>6, <3>1, <3>2 DEF Inv, ObjectInv, Complete
    <3> QED  BY <1>5, <1>7, <3>2, <3>3 DEF Inv, ObjectInv
  <2>3. ASSUME NEW x \in Objects, Exists(x)', metadata'[x].correlation_id = Absent
        PROVE  metadata'[x].origin \in None
    <3>1. CASE x = o
      <4>1. metadata'[x].correlation_id = m.correlation_id /\ metadata'[x].origin = m.origin
        BY <1>1, <3>1, VersionedIs DEF Keys, Inv
      <4> QED  BY <2>3, <4>1
    <3>2. CASE x # o
      BY <1>1, <2>3, <3>2 DEF Exists, Inv, ObjectInv
    <3> QED  BY <3>1, <3>2
  <2> QED  BY <2>1, <2>2, <2>3 DEF ObjectInv
<1>12. EventsInv'
  <2> SUFFICES ASSUME NEW f \in Events, holder'[f] # Absent PROVE EventInv(f)'
    BY DEF EventsInv
  <2>1. CASE f = e
    <3>1. ~Prepared(e)'
      <4> SUFFICES ASSUME NEW p \in Publications, o = <<p, e>> PROVE FALSE
        BY <1>2 DEF Prepared
      <4>1. Exists(o)
        BY Apart
      <4> QED  BY <1>2, <4>1 DEF Inv, ObjectInv
    <3>2. MetadataOf(e)' = Versioned(e, m)
      BY <1>1, <1>2 DEF MetadataOf
    <3>3. \A key \in Keys \ given'[e] : key # "version" => MetadataOf(e)'[key] = Absent
      BY <1>3, <3>2, VersionedIs DEF Inv
    <3> QED  BY <2>1, <3>1, <3>3 DEF EventInv
  <2>2. CASE f # e
    <3>1. holder[f] # Absent /\ holder'[f] = holder[f] /\ given'[f] = given[f]
      BY <1>2, <1>3, <2>2
    <3>2. \A key \in Keys : key # "version" => MetadataOf(f)'[key] = MetadataOf(f)[key]
      BY <1>6, <1>7, <3>1 DEF MetadataOf
    <3>3. Prepared(f) /\ f \notin overwritten' => MetadataOf(f)' = MetadataOf(f)
      BY <1>9 DEF Kept, KeptEvent
    <3> QED  BY <1>4, <1>5, <3>1, <3>2, <3>3, EventStays
  <2> QED  BY <2>1, <2>2
<1>13. \A p \in Publications : CallInv(p)'
  BY <1>5, <1>9, CallStays
<1>14. StoredInv'
  BY <1>5, <1>9, StoredStays DEF StoredInv
<1> QED  BY <1>10, <1>11, <1>12, <1>13, <1>14 DEF Inv

LEMMA NewStep ==
    ASSUME Inv, NEW e \in Events, New(e) \/ \E o \in Objects : NewOver(e, o)
    PROVE  Inv'
<1>1. CASE New(e)
  <2>1. PICK m \in Partials \cup {metadata[o] : o \in {x \in Objects : Exists(x)}} :
            Constructs(e, e, m)
    BY <1>1 DEF New
  <2>2. m \in Metadata /\ (m.correlation_id = Absent => m.origin \in None)
    BY PrepublishAssumption DEF Inv, ShapeInv, ObjectInv, Exists
  <2>3. ~Exists(e) /\ e \in Objects
    BY <2>1, Apart DEF Constructs, Inv, ObjectInv
  <2> QED  BY <2>1, <2>2, <2>3, ConstructStep
<1>2. ASSUME NEW o \in Objects, NewOver(e, o) PROVE Inv'
  <2>1. Exists(o) /\ Constructs(e, o, metadata[o])
    BY <1>2 DEF NewOver
  <2>2. metadata[o] \in Metadata /\ (metadata[o].correlation_id = Absent => metadata[o].origin \in None)
    BY <2>1 DEF Inv, ShapeInv, ObjectInv, Exists
  <2> QED  BY <2>1, <2>2, ConstructStep
<1> QED  BY <1>1, <1>2
-----------------------------------------------------------------------------
(* The steps of a publication that leave the events alone. *)
LEMMA QuietStep ==
    ASSUME Inv, NEW p \in Publications,
           UNCHANGED <<class, holder, metadata, history>>,
           stage' \in [Publications -> Stages], call' \in [Publications -> Calls],
           \A q \in Publications : q # p => stage'[q] = stage[q] /\ call'[q] = call[q],
           stage[p] \notin {"idle", "preparing"} =>
                stage'[p] \notin {"idle", "preparing"} /\ call'[p].context = call[p].context,
           stage[p] # "written",
           CallInv(p)', \A s \in stored' \ stored : StoredFrom(s)'
    PROVE  Inv'
<1>1. UNCHANGED <<given, overwritten>>
  BY DEF history
<1>2. \A e \in Events : (Prepared(e)' <=> Prepared(e)) /\ MetadataOf(e)' = MetadataOf(e)
  BY DEF Prepared, MetadataOf
<1>3. Kept
  BY <1>1, <1>2, PreparedExists DEF Kept, KeptEvent
<1>4. ShapeInv'
  BY <1>1 DEF Inv, ShapeInv, Exists
<1>5. \A q \in Publications : stage[q] \notin {"idle", "preparing"} =>
        stage'[q] \notin {"idle", "preparing"} /\ call'[q].context = call[q].context
  OBVIOUS
<1>6. ObjectInv'
  BY <1>5 DEF Inv, ObjectInv, Exists, Complete
<1>7. EventsInv'
  BY <1>1, <1>2, <1>5, EventStays DEF EventsInv
<1>8. \A q \in Publications : CallInv(q)'
  BY <1>3, CallStays
<1>9. StoredInv'
  <2>1. \A s \in stored : StoredFrom(s) /\ s.by \in Publications /\ s.by # p
    BY DEF Inv, StoredInv, StoredFrom
  <2> QED  BY <1>3, <2>1, StoredStays DEF StoredInv
<1> QED  BY <1>4, <1>6, <1>7, <1>8, <1>9 DEF Inv

LEMMA PublishStep ==
    ASSUME Inv, NEW p \in Publications, NEW b \in Batches, NEW c \in Contexts,
           NEW name \in Names \cup {Absent}, PublishAll(p, b, c, name)
    PROVE  Inv'
<1>1. [events |-> b, context |-> c, stream |-> name] \in Calls
  BY DEF Calls, None
<1>2. /\ stage' \in [Publications -> Stages] /\ call' \in [Publications -> Calls]
      /\ stage[p] = "idle" /\ stage'[p] = "preparing"
      /\ call'[p] = [events |-> b, context |-> c, stream |-> name]
      /\ \A q \in Publications : q # p => stage'[q] = stage[q] /\ call'[q] = call[q]
  BY <1>1 DEF PublishAll, Inv, ShapeInv, Stages
<1>3. CallInv(p)'
  BY <1>2 DEF PublishAll, CallInv, InBatch
<1>4. UNCHANGED <<class, holder, metadata, stored, history>>
  BY DEF PublishAll
<1> QED  BY <1>2, <1>3, <1>4, QuietStep

LEMMA ThrowsStep ==
    ASSUME Inv, NEW p \in Publications, PrepareThrows(p)
    PROVE  Inv'
<1>1. /\ stage' \in [Publications -> Stages] /\ call' \in [Publications -> Calls]
      /\ stage[p] = "preparing" /\ stage'[p] = "failed"
      /\ \A q \in Publications : q # p => stage'[q] = stage[q]
      /\ UNCHANGED <<class, holder, metadata, call, stored, history>>
  BY DEF PrepareThrows, Inv, ShapeInv, Stages
<1>2. CallInv(p)'
  BY <1>1 DEF Inv, CallInv
<1> QED  BY <1>1, <1>2, QuietStep

LEMMA ValidateStep ==
    ASSUME Inv, NEW p \in Publications, Validate(p)
    PROVE  Inv'
<1>1. /\ stage[p] = "validating" /\ CallInv(p)
      /\ UNCHANGED <<class, holder, metadata, stored, history>>
  BY DEF Validate, Inv
<1>2. /\ call[p].events \in Batches /\ call[p].context \in Contexts
      /\ InBatch(call[p].events) \subseteq Events
      /\ Head(call[p].events) \in InBatch(call[p].events)
      /\ \A e \in InBatch(call[p].events) : Prepared(e)
  BY <1>1, BatchEvents DEF CallInv
<1>3. CASE stage' = [stage EXCEPT ![p] = "failed"] /\ UNCHANGED call
  <2>1. /\ stage' \in [Publications -> Stages] /\ call' \in [Publications -> Calls]
        /\ stage'[p] = "failed"
        /\ \A q \in Publications : q # p => stage'[q] = stage[q]
    BY <1>3 DEF Inv, ShapeInv, Stages
  <2>2. CallInv(p)'
    BY <1>1, <1>2, <1>3, <2>1 DEF CallInv
  <2> QED  BY <1>1, <1>3, <2>1, <2>2, QuietStep
<1>4. CASE /\ Errors(call[p].events) = {}
           /\ stage' = [stage EXCEPT ![p] = "writing"]
           /\ call' = [call EXCEPT ![p].stream = StreamName(p)]
  <2>1. /\ MetadataOf(Head(call[p].events)) \in Metadata
        /\ StreamName(p) \in Names \cup {MetadataOf(Head(call[p].events)).correlation_id}
    BY <1>1, <1>2, PreparedExists DEF StreamName, CallInv
  <2>2. StreamName(p) \in Names \cup Ids \cup None
    BY <2>1 DEF Metadata
  <2>3. /\ stage' \in [Publications -> Stages] /\ call' \in [Publications -> Calls]
        /\ stage'[p] = "writing"
        /\ call'[p].events = call[p].events /\ call'[p].context = call[p].context
        /\ call'[p].stream = StreamName(p)
        /\ \A q \in Publications : q # p => stage'[q] = stage[q] /\ call'[q] = call[q]
    BY <1>4, <2>2 DEF Inv, ShapeInv, Stages, Calls
  <2>4. \A e \in InBatch(call[p].events) : class[e].sound /\ ValidOnceMore(e, MetadataOf(e))
    BY <1>2, <1>4 DEF Errors, ValidOnceMore
  <2>5. UNCHANGED overwritten
    BY <1>1 DEF history
  <2>6. \A e : (Prepared(e)' <=> Prepared(e)) /\ MetadataOf(e)' = MetadataOf(e)
    BY <1>1 DEF Prepared, MetadataOf
  <2>7. \A e : ValidOnceMore(e, MetadataOf(e))' <=> ValidOnceMore(e, MetadataOf(e))
    BY <2>5, <2>6 DEF ValidOnceMore, IsValid
  <2>8. CallInv(p)'
    BY <1>1, <1>2, <2>1, <2>3, <2>4, <2>6, <2>7 DEF CallInv, InBatch
  <2> QED  BY <1>1, <2>3, <2>8, QuietStep
<1> QED  BY <1>3, <1>4 DEF Validate

LEMMA WriteStep ==
    ASSUME Inv, NEW p \in Publications, WriteEvents(p)
    PROVE  Inv'
<1>1. /\ stage[p] = "writing" /\ CallInv(p)
      /\ UNCHANGED <<class, holder, metadata, call, history>>
      /\ stage' \in [Publications -> Stages] /\ stage'[p] = "written"
      /\ call' \in [Publications -> Calls]
      /\ \A q \in Publications : q # p => stage'[q] = stage[q]
  BY DEF WriteEvents, Inv, ShapeInv, Stages
<1>2. /\ call[p].events \in Batches /\ call[p].context \in Contexts
      /\ InBatch(call[p].events) \subseteq Events
      /\ \A e \in InBatch(call[p].events) : Prepared(e)
  BY <1>1, BatchEvents DEF CallInv
<1>3. UNCHANGED <<overwritten, given>>
  BY <1>1 DEF history
<1>4. \A e : (Prepared(e)' <=> Prepared(e)) /\ MetadataOf(e)' = MetadataOf(e)
  BY <1>1 DEF Prepared, MetadataOf
<1>5. CallInv(p)'
  BY <1>1, <1>2, <1>4 DEF CallInv, InBatch
<1>6. ASSUME NEW s \in stored' \ stored PROVE StoredFrom(s)'
  <2>1. PICK e \in InBatch(call[p].events) :
            s = [event |-> e, metadata |-> MetadataOf(e), stream |-> call[p].stream, by |-> p]
    BY <1>6 DEF WriteEvents
  <2>2. /\ e \in Events /\ Prepared(e) /\ holder[e] # Absent /\ MetadataOf(e) \in Metadata
        /\ class[e].sound /\ ValidOnceMore(e, MetadataOf(e))
    BY <1>1, <1>2, PreparedExists DEF CallInv
  <2>3. EventInv(e)
    BY <2>2 DEF Inv, EventsInv
  <2>4. "type" \notin given[e] /\ e \notin overwritten =>
            MetadataOf(e).type = <<e, MetadataOf(e).version>>
    <3>1. e \notin overwritten => MetadataOf(e).version \in Nat
      BY <2>2 DEF ValidOnceMore, IsValid
    <3> QED  BY <2>2, <2>3, <3>1, Apart DEF EventInv
  <2>5. ValidOnceMore(e, MetadataOf(e))'
    BY <1>3, <1>4, <2>2 DEF ValidOnceMore, IsValid
  <2>6. ValidOnceMore(s.event, s.metadata)'
    BY <1>3, <2>1, <2>2 DEF ValidOnceMore, IsValid
  <2> QED  BY <1>1, <1>3, <1>4, <2>1, <2>2, <2>4, <2>6 DEF StoredFrom
<1> QED  BY <1>1, <1>5, <1>6, QuietStep
-----------------------------------------------------------------------------
LEMMA PrepareStep ==
    ASSUME Inv, NEW p \in Publications, Prepare(p)
    PROVE  /\ Inv'
           /\ \A e \in Events : Prepared(e) => MetadataOf(e)' = MetadataOf(e)
<1> DEFINE batch == InBatch(call[p].events)
<1>1. /\ stage[p] = "preparing" /\ CallInv(p)
      /\ call[p].events \in Batches /\ call[p].context \in Contexts
      /\ batch \subseteq Events
      /\ \A e \in batch : holder[e] # Absent
      /\ UNCHANGED <<class, call, stored, given, overwritten>>
  BY BatchEvents DEF Prepare, Inv, CallInv, history
<1>2. /\ stage' \in [Publications -> Stages] /\ stage'[p] = "validating"
      /\ \A q \in Publications : q # p => stage'[q] = stage[q]
  BY DEF Prepare, Inv, ShapeInv, Stages
<1>3. /\ holder' \in [Events -> Objects \cup {Absent}]
      /\ \A e \in Events : holder'[e] = IF e \in batch THEN <<p, e>> ELSE holder[e]
      /\ \A e \in Events : holder[e] # Absent <=> holder'[e] # Absent
  BY <1>1, Apart DEF Prepare, Inv, ShapeInv
<1>4. \A e \in batch : Fills(p, e) \in Metadata /\ Complete(Fills(p, e)) /\ Fills(p, e) # Absent
  BY <1>1, FillsWhole, Apart
<1>5. /\ metadata' \in [Objects -> Metadata \cup {Absent}]
      /\ \A e \in batch : metadata'[<<p, e>>] = Fills(p, e)
      /\ \A o \in Objects : o \notin {p} \X batch => metadata'[o] = metadata[o]
  <2>1. metadata' = [o \in Objects |->
            IF o \in {p} \X batch THEN Fills(p, o[2]) ELSE metadata[o]]
    BY DEF Prepare
  <2>2. \A o \in {p} \X batch : o[2] \in batch /\ o = <<p, o[2]>>
    OBVIOUS
  <2>3. \A e \in batch : <<p, e>> \in Objects /\ <<p, e>> \in {p} \X batch /\ <<p, e>>[2] = e
    BY <1>1, Apart
  <2> QED  BY <1>4, <2>1, <2>2, <2>3 DEF Inv, ShapeInv
(* The objects that prepare() makes were not there. *)
<1>6. \A e \in Events : ~Exists(<<p, e>>)
  BY <1>1 DEF Inv, ObjectInv
<1>7. \A o \in Objects : Exists(o) => o \notin {p} \X batch /\ metadata'[o] = metadata[o] /\ Exists(o)'
  <2> SUFFICES ASSUME NEW o \in Objects, Exists(o), o \in {p} \X batch PROVE FALSE
    BY <1>5 DEF Exists
  <2>1. PICK e \in batch : o = <<p, e>>
    OBVIOUS
  <2> QED  BY <1>1, <1>6, <2>1
<1>8. \A e \in Events : holder[e] # Absent =>
        holder[e] \in Objects /\ Exists(holder[e]) /\ metadata'[holder[e]] = metadata[holder[e]]
  BY <1>7 DEF Inv, ShapeInv
<1>9. ASSUME NEW e \in Events
      PROVE  /\ e \in batch => Prepared(e)' /\ MetadataOf(e)' = Fills(p, e)
             /\ e \notin batch /\ holder[e] # Absent =>
                    MetadataOf(e)' = MetadataOf(e) /\ (Prepared(e)' <=> Prepared(e))
  BY <1>3, <1>5, <1>8 DEF MetadataOf, Prepared
<1>10. \A e \in Events : Prepared(e) => MetadataOf(e)' = MetadataOf(e) /\ Prepared(e)'
  <2> SUFFICES ASSUME NEW e \in Events, Prepared(e)
               PROVE  MetadataOf(e)' = MetadataOf(e) /\ Prepared(e)'
    OBVIOUS
  <2>1. holder[e] # Absent
    BY PreparedExists
  <2>2. e \in batch => Fills(p, e) = MetadataOf(e)
    BY <1>1, <2>1, FillsWhole
  <2> QED  BY <1>9, <2>1, <2>2
<1>11. Kept
  <2>1. ASSUME NEW e \in Events, Prepared(e) PROVE KeptEvent(e)
    <3>1. holder'[e] # Absent /\ MetadataOf(e) \in Metadata
      BY <1>3, <2>1, PreparedExists
    <3> QED  BY <1>1, <1>10, <2>1, <3>1 DEF KeptEvent
  <2> QED  BY <1>1, <1>3, <2>1 DEF Kept
<1>12. ShapeInv'
  <2>1. \A e \in Events : holder'[e] # Absent => metadata'[holder'[e]] # Absent
    BY <1>3, <1>4, <1>5, <1>8 DEF Exists
  <2> QED  BY <1>1, <1>2, <1>3, <1>5, <2>1 DEF Inv, ShapeInv, Exists
<1>13. ObjectInv'
  <2>1. ASSUME NEW e \in Events, holder'[e] = Absent PROVE ~Exists(e)'
    <3>1. holder[e] = Absent /\ e \in Objects /\ e \notin {p} \X batch
      BY <1>1, <1>3, <2>1, Apart
    <3> QED  BY <1>5, <3>1 DEF Exists, Inv, ObjectInv
  <2>2. ASSUME NEW q \in Publications, NEW e \in Events, Exists(<<q, e>>)'
        PROVE  /\ Complete(metadata[<<q, e>>])' /\ stage'[q] \notin {"idle", "preparing"}
               /\ holder'[e] # Absent
    <3>1. CASE q = p /\ e \in batch
      BY <1>2, <1>3, <1>1, <1>4, <1>5, <3>1 DEF Complete
    <3>2. CASE ~(q = p /\ e \in batch)
      <4>1. <<q, e>> \in Objects /\ <<q, e>> \notin {p} \X batch
        BY <3>2, Apart
      <4>2. metadata'[<<q, e>>] = metadata[<<q, e>>] /\ Exists(<<q, e>>)
        BY <1>5, <2>2, <4>1 DEF Exists
      <4> QED  BY <1>2, <1>3, <4>2 DEF Inv, ObjectInv, Complete
    <3> QED  BY <3>1, <3>2
  <2>3. ASSUME NEW o \in Objects, Exists(o)', metadata'[o].correlation_id = Absent
        PROVE  metadata'[o].origin \in None
    <3>1. CASE o \in {p} \X batch
      <4>1. PICK e \in batch : o = <<p, e>>
        BY <3>1
      <4> QED  BY <1>4, <1>5, <2>3, <4>1 DEF Complete, Keys
    <3>2. CASE o \notin {p} \X batch
      BY <1>5, <2>3, <3>2 DEF Exists, Inv, ObjectInv
    <3> QED  BY <3>1, <3>2
  <2> QED  BY <2>1, <2>2, <2>3 DEF ObjectInv
<1>14. \A q \in Publications : stage[q] \notin {"idle", "preparing"} =>
        stage'[q] \notin {"idle", "preparing"} /\ call'[q].context = call[q].context
  BY <1>1, <1>2
<1>15. EventsInv'
  <2> SUFFICES ASSUME NEW e \in Events, holder'[e] # Absent PROVE EventInv(e)'
    BY DEF EventsInv
  <2>0. holder[e] # Absent /\ EventInv(e)
    BY <1>3 DEF Inv, EventsInv
  <2>1. CASE e \notin batch
    BY <1>1, <1>3, <1>9, <1>14, <2>0, <2>1, EventStays
  <2>2. CASE e \in batch /\ Prepared(e)
    <3>1. EventInv(e) /\ MetadataOf(e)' = MetadataOf(e)
      BY <1>10, <2>0, <2>2
    <3>2. OriginOf(MetadataOf(e)) => OriginOf(MetadataOf(e))'
      BY <1>14, <3>1 DEF OriginOf
    <3> QED  BY <1>1, <1>10, <2>2, <3>1, <3>2 DEF EventInv
  <2>3. CASE e \in batch /\ ~Prepared(e)
    <3>1. Prepared(e)' /\ MetadataOf(e)' = Fills(p, e) /\ MetadataOf(e) \in Metadata
      BY <1>1, <1>9, <2>0, <2>3, FillsWhole
    <3>2. \A key \in Keys \ given[e] : key # "version" => MetadataOf(e)[key] = Absent
      BY <2>0, <2>3 DEF EventInv
    <3>3. "type" \notin given[e] =>
            Fills(p, e).version \in None \/ Fills(p, e).type = <<e, Fills(p, e).version>>
      BY <1>1, <2>0, <3>2, FillsWhole DEF Keys
    <3>4. ASSUME "correlation_id" \notin given[e] PROVE OriginOf(MetadataOf(e))'
      <4>1. MetadataOf(e).correlation_id = Absent
        BY <3>2, <3>4 DEF Keys
      <4>2. MetadataOf(e).origin \in None
        BY <2>0, <4>1 DEF Inv, ShapeInv, ObjectInv, MetadataOf
      <4>3. Fills(p, e).correlation_id = call[p].context.correlation
        BY <1>1, <2>0, <4>1, FillsWhole
      <4>4. CASE MetadataOf(e).origin = Absent
        <5>1. Fills(p, e).origin = p
          BY <1>1, <2>0, <4>4, FillsWhole
        <5>2. MetadataOf(e)'.origin = p /\ MetadataOf(e)'.correlation_id = call'[p].context.correlation
          BY <1>1, <3>1, <4>3, <5>1
        <5> QED  BY <1>2, <3>1, <5>2 DEF OriginOf
      <4>5. CASE MetadataOf(e).origin = Undefined
        <5>1. Fills(p, e).origin = Undefined
          BY <1>1, <2>0, <4>5, FillsWhole, Apart DEF Keys
        <5>2. MetadataOf(e)'.origin = Undefined
          BY <3>1, <5>1
        <5> QED  BY <3>1, <5>2 DEF OriginOf
      <4> QED  BY <4>2, <4>4, <4>5 DEF None
    <3>5. "correlation_id" \notin given'[e] => OriginOf(MetadataOf(e))'
      BY <1>1, <3>4
    <3> QED  BY <1>1, <3>1, <3>3, <3>5 DEF EventInv
  <2> QED  BY <2>1, <2>2, <2>3
<1>16. ASSUME NEW q \in Publications PROVE CallInv(q)'
  <2>1. CASE q # p
    BY <1>1, <1>2, <1>11, <2>1, CallStays
  <2>2. CASE q = p
    BY <1>1, <1>2, <1>9, <2>2 DEF CallInv, InBatch
  <2> QED  BY <2>1, <2>2
<1>17. StoredInv'
  <2>1. \A s \in stored : StoredFrom(s) /\ s.by # p
    BY <1>1 DEF Inv, StoredInv, StoredFrom
  <2> QED  BY <1>1, <1>2, <1>11, <2>1, StoredStays DEF StoredInv, StoredFrom
<1> QED  BY <1>10, <1>12, <1>13, <1>15, <1>16, <1>17 DEF Inv
-----------------------------------------------------------------------------
LEMMA InvStep == Inv /\ [Next]_vars => Inv'
<1> SUFFICES ASSUME Inv, [Next]_vars PROVE Inv'
  OBVIOUS
<1>1. CASE UNCHANGED vars
  <2>1. UNCHANGED <<class, holder, metadata, stage, call, stored, given, overwritten>>
    BY <1>1 DEF vars, history
  <2>2. ShapeInv' /\ ObjectInv'
    BY <2>1 DEF Inv, ShapeInv, ObjectInv, Exists, Complete
  <2>3. \A e : (Prepared(e)' <=> Prepared(e)) /\ MetadataOf(e)' = MetadataOf(e)
    BY <2>1 DEF Prepared, MetadataOf
  <2>4. EventsInv'
    BY <2>1, <2>3, EventStays DEF EventsInv
  <2>5. Kept
    BY <2>1, <2>3, PreparedExists DEF Kept, KeptEvent
  <2>6. \A p \in Publications : CallInv(p)'
    BY <2>1, <2>5, CallStays
  <2>7. StoredInv'
    BY <2>1, <2>5, StoredStays DEF StoredInv
  <2> QED  BY <2>2, <2>4, <2>6, <2>7 DEF Inv
<1>2. CASE Next
  BY <1>2, NewStep, PublishStep, PrepareStep, ThrowsStep, ValidateStep, WriteStep DEF Next
<1> QED  BY <1>1, <1>2

LEMMA InvAlways == Spec => []Inv
BY InvStart, InvStep, PTL DEF Spec
-----------------------------------------------------------------------------
(* Every variable keeps its type: no object is named that was not made,    *)
(* and what prepare() has been over has every key.                         *)
THEOREM PrepublishTypeCorrect == Spec => []TypeOK
<1>1. Inv => TypeOK
  <2> SUFFICES ASSUME Inv PROVE TypeOK
    OBVIOUS
  <2>1. \A p \in Publications :
        /\ stage[p] # "idle" => call[p].events \in Batches /\ call[p].context \in Contexts
        /\ call[p].stream \in Names \cup Ids \cup None
    BY DEF Inv, ShapeInv, CallInv, Calls
  <2>2. \A e \in Events : Prepared(e) => \A key \in Keys : MetadataOf(e)[key] # Absent
    BY PreparedExists DEF Complete
  <2> QED  BY <2>1, <2>2 DEF TypeOK, Inv, ShapeInv, StoredInv, StoredFrom
<1> QED  BY <1>1, InvAlways, PTL

(* What is written was valid when it was validated and still is, whatever  *)
(* other publications do with the same events meanwhile; constructing more *)
(* events can spoil its version only.                                      *)
THEOREM WhatIsStoredIsValid == Spec => []StoredValid
<1>1. Inv => StoredValid
  BY DEF Inv, StoredInv, StoredFrom, StoredValid
<1> QED  BY <1>1, InvAlways, PTL

(* What prepare() has filled once is changed by no publication, and by the *)
(* construction of a versioned event over that very object only, in its    *)
(* version: prepare() is idempotent.                                       *)
THEOREM PreparedForGood == Spec => PreparedStable
<1> DEFINE Stable(e) ==
        \/ MetadataOf(e)' = MetadataOf(e)
        \/ \E f \in Events :
            /\ holder[f] = Absent /\ holder'[f] = holder[e]
            /\ MetadataOf(e)' = [MetadataOf(e) EXCEPT !.version = class[f].version]
<1>1. ASSUME Inv, Next, NEW e \in Events, Prepared(e) PROVE Stable(e)
  <2>0. holder[e] # Absent /\ holder[e] \in Objects /\ holder[e] \notin Events /\ Exists(holder[e])
    BY <1>1, PreparedExists DEF Inv, ShapeInv
  <2>1. ASSUME NEW f \in Events, NEW o \in Objects, NEW m, Constructs(f, o, m),
               o = holder[e] => m = metadata[o]
        PROVE  Stable(e)
    <3>1. f # e /\ holder'[e] = holder[e] /\ holder[f] = Absent /\ holder'[f] = o
      BY <1>1, <2>0, <2>1 DEF Constructs, Inv, ShapeInv
    <3>2. metadata'[o] = Versioned(f, m) /\ \A x \in Objects : x # o => metadata'[x] = metadata[x]
      BY <1>1, <2>1 DEF Constructs, Inv, ShapeInv
    <3>3. CASE o # holder[e]
      BY <2>0, <3>1, <3>2, <3>3 DEF MetadataOf
    <3>4. CASE o = holder[e]
      <4>1. MetadataOf(e)' = Versioned(f, MetadataOf(e))
        BY <2>1, <3>1, <3>2, <3>4 DEF MetadataOf
      <4> QED  BY <3>1, <3>4, <4>1 DEF Versioned
    <3> QED  BY <3>3, <3>4
  <2>2. ASSUME NEW f \in Events, New(f) \/ \E o \in Objects : NewOver(f, o) PROVE Stable(e)
    <3>1. CASE New(f)
      <4>1. PICK m : Constructs(f, f, m)
        BY <3>1 DEF New
      <4>2. f \in Objects /\ f # holder[e]
        BY <2>0, Apart
      <4> HIDE DEF Stable
      <4> QED  BY <2>1, <4>1, <4>2
    <3>2. CASE \E o \in Objects : NewOver(f, o)
      <4>1. PICK o \in Objects : Constructs(f, o, metadata[o])
        BY <3>2 DEF NewOver
      <4> HIDE DEF Stable
      <4> QED  BY <2>1, <4>1
    <3> QED  BY <2>2, <3>1, <3>2
  <2>3. ASSUME NEW p \in Publications, Prepare(p) PROVE Stable(e)
    BY <1>1, <2>3, PrepareStep
  <2>4. CASE UNCHANGED <<holder, metadata>>
    BY <2>4 DEF MetadataOf
  <2> QED
    BY <1>1, <2>2, <2>3, <2>4 DEF Next, PublishAll, PrepareThrows, Validate, WriteEvents
<1>2. Inv /\ [Next]_vars => [\A e \in Events : Prepared(e) => Stable(e)]_vars
  BY <1>1
<1> QED  BY <1>2, InvAlways, PTL DEF Spec, PreparedStable

(* The type that is stored names the event and the version stored with it, *)
(* unless a type was given to the constructor, or the version overwritten. *)
THEOREM TypeIsOfEvent == Spec => []TypeNamesEvent
<1>1. Inv => TypeNamesEvent
  BY DEF Inv, StoredInv, StoredFrom, TypeNamesEvent
<1> QED  BY <1>1, InvAlways, PTL

(* The events of a call go to the stream of the first one's correlation id *)
(* when the call names none; and it is an event's own when the same        *)
(* publication filled both and neither was constructed with an id.         *)
THEOREM StreamsAreOwn == Spec => []StreamIsOwn
<1>1. Inv => StreamIsOwn
  <2> SUFFICES ASSUME Inv, NEW s \in stored, NEW h \in stored,
                      s.by = h.by, h.event = Head(call[s.by].events), s.stream \notin Names
               PROVE  /\ s.stream = h.metadata.correlation_id
                      /\ /\ s.metadata.origin = h.metadata.origin
                         /\ "correlation_id" \notin given[s.event] \cup given[h.event]
                         => s.stream = s.metadata.correlation_id
    BY DEF StreamIsOwn
  <2>1. StoredFrom(s) /\ StoredFrom(h)
    BY DEF Inv, StoredInv
  <2>2. s.stream = h.metadata.correlation_id
    BY <2>1 DEF StoredFrom, Inv, CallInv
  <2>3. ASSUME s.metadata.origin = h.metadata.origin,
               "correlation_id" \notin given[s.event] \cup given[h.event]
        PROVE  s.metadata.correlation_id = h.metadata.correlation_id
    <3>1. s.metadata.origin \notin None
      BY <2>1 DEF StoredFrom, ValidOnceMore, IsValid, Metadata
    <3>2. holder[s.event] # Absent /\ holder[h.event] # Absent
      BY <2>1, PreparedExists DEF StoredFrom
    <3>3. OriginOf(MetadataOf(s.event)) /\ OriginOf(MetadataOf(h.event))
      BY <2>1, <2>3, <3>2 DEF StoredFrom, Inv, EventsInv, EventInv
    <3> QED  BY <2>1, <2>3, <3>1, <3>3 DEF StoredFrom, OriginOf, None
  <2> QED  BY <2>2, <2>3
<1> QED  BY <1>1, InvAlways, PTL
=============================================================================
