----------------------------- MODULE Prepublish -----------------------------
(***************************************************************************)
(* The CloudEvents metadata of written events.  A constructor leaves it    *)
(* partial, in an object that may be that of other events too; prepare()   *)
(* fills it from the context of the request; validate() looks at all       *)
(* events of the call; the publisher names the stream after the first.     *)
(* Publications overlap, and one that fails leaves its events prepared.    *)
(***************************************************************************)
EXTENDS Naturals, Sequences

CONSTANTS
    Events,         \* the events of the application
    Classes,        \* what these may be: functions to [version, sound]
    Publications,   \* the calls of publishAll()
    Batches,        \* the arrays it may be called with, sequences of events
    Contexts,       \* the request contexts: [correlation, hostname]
    Names,          \* the stream names of publication contexts
    Ids,            \* the correlation ids
    Types,          \* the types that applications give their events
    Partials,       \* the metadata that applications give their events
    Absent,         \* a key or an object that is not there
    Undefined       \* the value of a key that is there and has none

(* An object of metadata, with the keys that matter here: "origin" stands  *)
(* for the required ones that come from the clock and the context alone    *)
(* (time, source, created_at), and names the publication that filled them. *)
Keys == {"correlation_id", "version", "type", "origin"}
None == {Absent, Undefined}
Metadata ==
    [correlation_id : Ids \cup None, version : Nat \cup None,
     type : (Events \X Nat) \cup Types \cup None, origin : Publications \cup None]

(* Objects are named by the event they were made for: by the application   *)
(* that constructs it, or by the prepare() of a publication.               *)
Objects == Events \cup (Publications \X Events)

ASSUME PrepublishAssumption ==
    /\ Batches \subseteq Seq(Events) \ {<<>>}
    /\ Classes \subseteq [Events -> [version : Nat \cup {Absent}, sound : BOOLEAN]]
    /\ Contexts \subseteq [correlation : Ids \cup {Undefined}, hostname : BOOLEAN]
    /\ Partials \subseteq {m \in Metadata : m.origin \in None}
    /\ Events \cap (Publications \X Events) = {}
    /\ Undefined # Absent
    /\ \A x \in None : x \notin Objects \cup Ids \cup Nat \cup Types
                                   \cup Publications \cup (Events \X Nat)
    /\ Absent \notin Metadata

VARIABLES
    class,      \* the class of each event
    holder,     \* the object that is the metadata of each event
    metadata,   \* the contents of these objects
    stage,      \* how far each publication is
    call,       \* its events, its context, and its stream
    stored,     \* what the publisher has written
    given,      \* history: the keys each event was constructed with
    overwritten \* history: the prepared events whose version another event,
                \* constructed over the same object, has replaced

history == <<given, overwritten>>
vars == <<class, holder, metadata, stage, call, stored, history>>

Stages == {"idle", "preparing", "validating", "writing", "written", "failed"}

Exists(o) == metadata[o] # Absent

MetadataOf(e) == metadata[holder[e]]

(* An event that prepare() has been over has an object made for it there,  *)
(* which others may have been given since.                                 *)
Prepared(e) == \E p \in Publications : holder[e] = <<p, e>>

InBatch(b) == {b[i] : i \in DOMAIN b}

NoCall == [events |-> <<>>, context |-> Absent, stream |-> Absent]

Init ==
    /\ class \in Classes
    /\ holder = [e \in Events |-> Absent]
    /\ metadata = [o \in Objects |-> Absent]
    /\ stage = [p \in Publications |-> "idle"]
    /\ call = [p \in Publications |-> NoCall]
    /\ stored = {}
    /\ given = [e \in Events |-> {}]
    /\ overwritten = {}
-----------------------------------------------------------------------------
(* Creating events. *)

(* The EventVersion decorator writes into the metadata, whosever it is. *)
Versioned(e, m) ==
    IF class[e].version = Absent THEN m ELSE [m EXCEPT !.version = class[e].version]

Constructs(e, o, m) ==
    /\ holder[e] = Absent
    /\ holder' = [holder EXCEPT ![e] = o]
    /\ metadata' = [metadata EXCEPT ![o] = Versioned(e, m)]
    /\ given' = [given EXCEPT ![e] = {key \in Keys : m[key] # Absent}]
    /\ overwritten' =
        IF class[e].version = Absent
        THEN overwritten
        ELSE overwritten \cup {f \in Events : holder[f] = o /\ Prepared(f)}
    /\ UNCHANGED <<class, stage, call, stored>>

(* An event with metadata of its own: none, some, or a copy of another's.  *)
New(e) ==
    \E m \in Partials \cup {metadata[o] : o \in {x \in Objects : Exists(x)}} :
        Constructs(e, e, m)

(* One that is constructed over an object there is, another event's maybe. *)
NewOver(e, o) == Exists(o) /\ Constructs(e, o, metadata[o])
-----------------------------------------------------------------------------
(* prepare() *)

Version(own) == IF own.version \in None THEN 1 ELSE own.version

(* Bug: the type is made of the default version. *)
TypedByDefault(e, p) ==
    [correlation_id |-> call[p].context.correlation, version |-> Version(MetadataOf(e)),
     type |-> <<e, 1>>, origin |-> p]

CloudEventMetadata(e, p) ==
    LET version == Version(MetadataOf(e))
    IN  [correlation_id |-> call[p].context.correlation, version |-> version,
         type |-> <<e, version>>, origin |-> p]

(* Bug: what the context gives goes over what the event has. *)
SpreadOver(cloud, own) == cloud

(* What the event has goes over what the context gives, undefined or not. *)
Spread(cloud, own) ==
    [key \in DOMAIN own |-> IF own[key] = Absent THEN cloud[key] ELSE own[key]]

Fills(p, e) == Spread(CloudEventMetadata(e, p), MetadataOf(e))

PublishAll(p, b, c, name) ==
    /\ stage[p] = "idle"
    /\ \A e \in InBatch(b) : holder[e] # Absent
    /\ call' = [call EXCEPT ![p] = [events |-> b, context |-> c, stream |-> name]]
    /\ stage' = [stage EXCEPT ![p] = "preparing"]
    /\ UNCHANGED <<class, holder, metadata, stored, history>>

(* Every event of the call gets an object of its own. *)
Prepare(p) ==
    /\ stage[p] = "preparing"
    /\ call[p].context.hostname
    /\ LET batch == InBatch(call[p].events)
       IN  /\ holder' = [e \in Events |-> IF e \in batch THEN <<p, e>> ELSE holder[e]]
           /\ metadata' = [o \in Objects |->
                IF o \in {p} \X batch THEN Fills(p, o[2]) ELSE metadata[o]]
    /\ stage' = [stage EXCEPT ![p] = "validating"]
    /\ UNCHANGED <<class, call, stored, history>>

(* Without a hostname the first event throws, and no event is touched. *)
PrepareThrows(p) ==
    /\ stage[p] = "preparing"
    /\ ~call[p].context.hostname
    /\ stage' = [stage EXCEPT ![p] = "failed"]
    /\ UNCHANGED <<class, holder, metadata, call, stored, history>>
-----------------------------------------------------------------------------
(* validate(), and the publisher *)

IsValid(m) ==
    /\ m.version \in Nat \ {0}
    /\ {m.correlation_id, m.type, m.origin} \cap None = {}

(* Bug: the errors of an event replace those of the events before it. *)
ErrorsOfLast(b) == {e \in {b[Len(b)]} : ~(class[e].sound /\ IsValid(MetadataOf(e)))}

Errors(b) == {e \in InBatch(b) : ~(class[e].sound /\ IsValid(MetadataOf(e)))}

(* Bug: the stream is named after the context of the call. *)
StreamOfContext(p) ==
    IF call[p].stream = Absent THEN call[p].context.correlation ELSE call[p].stream

StreamName(p) ==
    IF call[p].stream = Absent
    THEN MetadataOf(Head(call[p].events)).correlation_id
    ELSE call[p].stream

Validate(p) ==
    /\ stage[p] = "validating"
    /\ IF Errors(call[p].events) # {}
       THEN stage' = [stage EXCEPT ![p] = "failed"] /\ UNCHANGED call
       ELSE /\ stage' = [stage EXCEPT ![p] = "writing"]
            /\ call' = [call EXCEPT ![p].stream = StreamName(p)]
    /\ UNCHANGED <<class, holder, metadata, stored, history>>

(* The events are read only when their stream's metadata is written. *)
WriteEvents(p) ==
    /\ stage[p] = "writing"
    /\ stored' = stored \cup
        {[event |-> e, metadata |-> MetadataOf(e), stream |-> call[p].stream, by |-> p] :
            e \in InBatch(call[p].events)}
    /\ stage' = [stage EXCEPT ![p] = "written"]
    /\ UNCHANGED <<class, holder, metadata, call, history>>

Next ==
    \/ \E e \in Events : New(e) \/ \E o \in Objects : NewOver(e, o)
    \/ \E p \in Publications :
        \/ \E b \in Batches, c \in Contexts, name \in Names \cup {Absent} :
            PublishAll(p, b, c, name)
        \/ Prepare(p) \/ PrepareThrows(p) \/ Validate(p) \/ WriteEvents(p)

Spec == Init /\ [][Next]_vars
-----------------------------------------------------------------------------
(* Types; an event's object exists, and one that prepare() made is whole. *)
TypeOK ==
    /\ class \in Classes
    /\ holder \in [Events -> Objects \cup {Absent}]
    /\ metadata \in [Objects -> Metadata \cup {Absent}]
    /\ \A e \in Events : holder[e] # Absent => Exists(holder[e])
    /\ \A e \in Events : Prepared(e) => \A key \in Keys : MetadataOf(e)[key] # Absent
    /\ stage \in [Publications -> Stages]
    /\ \A p \in Publications :
        /\ stage[p] # "idle" => call[p].events \in Batches /\ call[p].context \in Contexts
        /\ call[p].stream \in Names \cup Ids \cup None
    /\ \A s \in stored : s.event \in Events /\ s.by \in Publications
    /\ given \in [Events -> SUBSET Keys]
    /\ overwritten \subseteq Events

(* Valid, but for a version that was overwritten since it was validated.   *)
ValidOnceMore(e, m) ==
    IsValid(m) \/ (e \in overwritten /\ IsValid([m EXCEPT !.version = 1]))

(* What is written was valid when it was validated and still is: another   *)
(* publication of the same events, in any context, does not get in         *)
(* between, no event slips through behind a batch's others, and what the   *)
(* construction of others can spoil is the version and nothing else.       *)
StoredValid ==
    \A s \in stored : class[s.event].sound /\ ValidOnceMore(s.event, s.metadata)

(* The first prepare() decides: no later publication, in whatever context, *)
(* changes what a prepared event carries.  So an event may be sent again   *)
(* and be recognised, and one that was once prepared without a correlation *)
(* id is refused for ever.  Only an event that is constructed over its     *)
(* very object can change it, and only its version.                        *)
PreparedStable ==
    [][\A e \in Events : Prepared(e) =>
        \/ MetadataOf(e)' = MetadataOf(e)
        \/ \E f \in Events :
            /\ holder[f] = Absent /\ holder'[f] = holder[e]
            /\ MetadataOf(e)' = [MetadataOf(e) EXCEPT !.version = class[f].version]]_vars

(* The type names the event itself and the version it is stored with,      *)
(* unless it was constructed with a type, which goes over the computed     *)
(* one, or its version was overwritten after the type was computed.        *)
TypeNamesEvent ==
    \A s \in stored :
        "type" \notin given[s.event] /\ s.event \notin overwritten
        => s.metadata.type = <<s.event, s.metadata.version>>

(* Unless a stream name is given, the events of a call go to one stream,   *)
(* that of the correlation id of the first.  It is that of an event's own  *)
(* id if the same publication filled both; it need not be if another one   *)
(* had prepared either, or an id was given to a constructor.               *)
StreamIsOwn ==
    \A s, h \in stored :
        /\ s.by = h.by /\ h.event = Head(call[s.by].events)
        /\ s.stream \notin Names
        => /\ s.stream = h.metadata.correlation_id
           /\ /\ s.metadata.origin = h.metadata.origin
              /\ "correlation_id" \notin given[s.event] \cup given[h.event]
              => s.stream = s.metadata.correlation_id
=============================================================================
