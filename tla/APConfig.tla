------------------------------ MODULE APConfig ------------------------------
(***************************************************************************)
(* The configuration pushed to a device: APConfig::Get.                    *)
(*                                                                         *)
(* The device's own configuration, then those listed by its venue or       *)
(* entity and by everything above it, are collected; each is a sequence of *)
(* weighted elements and each element defines some top-level sections.     *)
(* Elements are kept in order of weight, and the first element to define a *)
(* section provides it.  Sections are then expanded: variable blocks and   *)
(* RADIUS endpoints are fetched and put in place.  A block that does not   *)
(* parse or an endpoint that is gone throws; Get catches and answers with  *)
(* what it has.                                                            *)
(*                                                                         *)
(* An element is known by where the walk meets it, and a section by the    *)
(* element that provides it.  The records do not change meanwhile.  The    *)
(* overrides applied at the end and the explanation are left out.          *)
(***************************************************************************)
EXTENDS Naturals, Sequences, SequencesExt, Lines

CONSTANTS
    ConfigIds,      \* device configurations
    EntityOf,       \* EntityOf[p]: the entity of venue p, NoPlace if none
    ParentOf,       \* ParentOf[p]: the parent of entity or venue p, NoPlace if none
    NoPlace,        \* the empty string
    ElementLists,   \* the sequences of elements a configuration may have
    Listings,       \* what a place may list in its configurations
    Sections        \* the section names in alphabetical order

Venues == DOMAIN EntityOf
Places == DOMAIN ParentOf

\* Whose configurations come next: a venue of an entity takes nothing from the venue it is in.
NextPlace ==
    [p \in Places |-> IF p \in Venues /\ EntityOf[p] # NoPlace THEN EntityOf[p] ELSE ParentOf[p]]

\* No place is above itself.
ASSUME APConfigAssumption ==
    /\ Venues \subseteq Places /\ NoPlace \notin Places \union ConfigIds
    /\ \A p \in Places : NextPlace[p] \in Places \union {NoPlace}
    /\ NoneAboveItself(NextPlace)
    /\ Listings \subseteq Seq(ConfigIds)
    /\ \A l \in ElementLists : /\ Len(l) \in Nat /\ DOMAIN l = 1 .. Len(l)
                               /\ \A i \in DOMAIN l : l[i].weight \in Nat
    /\ Len(Sections) \in Nat /\ DOMAIN Sections = 1 .. Len(Sections)

VARIABLES
    stored,     \* stored[c]: exists, the device types match, the elements
    lists,      \* lists[p]: the configurations entity or venue p lists
    device,     \* its place, its own configuration, and whether a subscriber's
    blocks,     \* what the variable block in use is: "good", "absent" or "broken"
    phase,      \* "new", "collect", "expand", "answered"
    walk,       \* the place (NoPlace: the device), position in its list, and element to add
    Config_,    \* the elements collected
    expand,     \* the position in Config_ of the element to expand
    names,      \* the section names met
    sections    \* what provides the sections of the answer

records == <<stored, lists, device, blocks>>
assemblyVars == <<records, phase, walk, Config_, expand, names, sections>>

AssemblyInit ==
    /\ stored \in [ConfigIds -> [exists : BOOLEAN, matches : BOOLEAN, elements : ElementLists]]
    /\ lists \in [Places -> Listings]
    /\ device \in [place : Places \union {NoPlace}, own : ConfigIds \union {NoPlace},
                   subscriber : BOOLEAN]
    /\ blocks \in {"good", "absent", "broken"}
    /\ phase = "new" /\ walk = [place |-> NoPlace, at |-> 1, i |-> 1]
    /\ Config_ = <<>> /\ expand = 1 /\ names = {} /\ sections = <<>>

\* Get collects, unless it has done so before.
Get ==
    /\ phase \in {"new", "answered"}
    /\ phase' = IF Config_ = <<>> THEN "collect" ELSE "expand"
    /\ walk' = [place |-> NoPlace, at |-> 1, i |-> 1]
    /\ expand' = 1 /\ names' = {} /\ sections' = <<>>
    /\ UNCHANGED <<records, Config_>>

(***************************************************************************)
(* The walk: the configurations listed, one after the other, first those   *)
(* of the device, then those of its place and of what is above it.         *)
(***************************************************************************)
ListOf(p) ==
    IF p # NoPlace THEN lists[p] ELSE IF device.own # NoPlace THEN <<device.own>> ELSE <<>>

\* A configuration that is gone, or is for other device types, has no elements to add.
ElementsOf(c) == IF stored[c].exists /\ stored[c].matches THEN stored[c].elements ELSE <<>>

Element(x) == ElementsOf(ListOf(x.place)[x.at])[x.i]

\* A subscriber device has its own configuration only.
Start == IF device.subscriber THEN NoPlace ELSE device.place

PlaceAfter(p) == IF p = NoPlace THEN Start ELSE NextPlace[p]

InList == walk.at \in DOMAIN ListOf(walk.place)
InConfiguration == InList /\ walk.i \in DOMAIN ElementsOf(ListOf(walk.place)[walk.at])

\* A mutation: an element goes before everything as heavy as it is.
GoesAfterHeavier(n, x) ==
    \A j \in DOMAIN Config_ : j <= n <=> Element(Config_[j]).weight > Element(x).weight

\* An element goes after the first n, everything as heavy as it is (an element without
\* weight at the end).
GoesAfter(n, x) ==
    \A j \in DOMAIN Config_ : j <= n <=> Element(Config_[j]).weight >= Element(x).weight

AddElement ==
    /\ phase = "collect" /\ InConfiguration
    /\ \E n \in 0 .. Len(Config_) :
          GoesAfter(n, walk) /\ Config_' = InsertAt(Config_, n + 1, walk)
    /\ walk' = [walk EXCEPT !.i = @ + 1]
    /\ UNCHANGED <<records, phase, expand, names, sections>>

NextConfiguration ==
    /\ phase = "collect" /\ InList /\ ~InConfiguration
    /\ walk' = [walk EXCEPT !.at = @ + 1, !.i = 1]
    /\ UNCHANGED <<records, phase, Config_, expand, names, sections>>

\* AddEntityConfig and AddVenueConfig go on to what is above.
GoUp ==
    /\ phase = "collect" /\ ~InList /\ PlaceAfter(walk.place) # NoPlace
    /\ walk' = [place |-> PlaceAfter(walk.place), at |-> 1, i |-> 1]
    /\ UNCHANGED <<records, phase, Config_, expand, names, sections>>

Collected ==
    /\ phase = "collect" /\ ~InList /\ PlaceAfter(walk.place) = NoPlace
    /\ phase' = "expand"
    /\ UNCHANGED <<records, walk, Config_, expand, names, sections>>

(***************************************************************************)
(* ReplaceVariables: a section that uses a block which does not parse, or  *)
(* an endpoint that is gone, throws.  An absent block leaves nothing.      *)
(***************************************************************************)
Throws(body) == body = "endpoint gone" \/ (body = "block" /\ blocks = "broken")

\* The sections of one element, in the order of their names up to one that throws.  The
\* first to name a section counts, also when it is neither an array nor an object and
\* dropped for that.
ExpandElement ==
    /\ phase = "expand" /\ expand <= Len(Config_)
    /\ LET body == Element(Config_[expand]).body
           new == {n \in DOMAIN Sections : Sections[n] \in DOMAIN body \ names}
           bad == {n \in new : Throws(body[Sections[n]])}
           added == {Sections[n] : n \in {n \in new : /\ \A m \in bad : n < m
                                                      /\ body[Sections[n]] # "scalar"}}
       IN  /\ names' = names \union {Sections[n] : n \in new}
           /\ sections' = [s \in DOMAIN sections \union added |->
                             IF s \in added THEN Config_[expand] ELSE sections[s]]
           /\ phase' = IF bad # {} THEN "answered" ELSE phase
    /\ expand' = expand + 1
    /\ UNCHANGED <<records, walk, Config_>>

Expanded ==
    /\ phase = "expand" /\ expand > Len(Config_)
    /\ phase' = "answered"
    /\ UNCHANGED <<records, walk, Config_, expand, names, sections>>

\* The answer is good when anything was collected, whatever was thrown later.
Good == Config_ # <<>>

AssemblyNext ==
    Get \/ AddElement \/ NextConfiguration \/ GoUp \/ Collected \/ ExpandElement \/ Expanded

AssemblySpec == AssemblyInit /\ [][AssemblyNext]_assemblyVars

-----------------------------------------------------------------------------

\* Every element that applies to the device: the place that lists its configuration
\* (NoPlace: the device itself), the position in that list, and the position in it.
Applying ==
    UNION {UNION {{[place |-> p, at |-> k, i |-> i] : i \in DOMAIN ElementsOf(ListOf(p)[k])}
                    : k \in DOMAIN ListOf(p)}
             : p \in {NoPlace} \union Line(NextPlace, Start)}

\* x is nearer to the device than y, or earlier in the same list or configuration.
Nearer(x, y) ==
    IF x.place # y.place
    THEN x.place = NoPlace \/ (y.place # NoPlace /\ y.place \in Line(NextPlace, x.place))
    ELSE x.at < y.at \/ (x.at = y.at /\ x.i < y.i)

Before(x, y) ==
    \/ Element(x).weight > Element(y).weight
    \/ Element(x).weight = Element(y).weight /\ Nearer(x, y)

\* What is to provide a section.
Defining(s) == {x \in Applying : s \in DOMAIN Element(x).body}
Provider(s) == {x \in Defining(s) : \A y \in Defining(s) \ {x} : Before(x, y)}

(***************************************************************************)
(* A section is provided by the heaviest element that defines it, among    *)
(* equally heavy ones by the one nearest to the device, then by the order  *)
(* of the lists; and unless something threw, every section so defined is   *)
(* there that is an array or an object.  About the insertion by weight and *)
(* the walk up the hierarchy.                                              *)
(***************************************************************************)
HeaviestNearestWins ==
    phase = "answered" =>
        LET named == {Sections[n] : n \in DOMAIN Sections}
            body(x, s) == Element(x).body[s]
        IN  /\ Good <=> Applying # {}
            /\ \A s \in DOMAIN sections :
                  /\ s \in named /\ sections[s] \in Provider(s)
                  /\ body(sections[s], s) # "scalar" /\ ~Throws(body(sections[s], s))
            /\ \/ \E s \in named : \E x \in Provider(s) : Throws(body(x, s))
               \/ \A s \in named \ DOMAIN sections :
                     Defining(s) # {} => \E x \in Provider(s) : body(x, s) = "scalar"
=============================================================================
