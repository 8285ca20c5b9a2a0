------------------------------ MODULE Listings ------------------------------
(***************************************************************************)
(* What a user who is not root sees of the lists of venues, inventory and  *)
(* operators, and of the tree of entities.  The list handlers decide from  *)
(* the user's roles themselves which rows to show, once RoleIsAuthorized   *)
(* let the request through; nothing but the reading of the code says that  *)
(* they and RoleIsAuthorized agree.                                        *)
(*                                                                         *)
(* Offset, limit and order of a list are left out: the result is a set.    *)
(***************************************************************************)
EXTENDS Authorization

\* Venues are below venues, and an operator has one entity.
ASSUME ListingsAssumption ==
    /\ \A v \in AllVenues : PlaceParent[v] \in AllVenues \union {None}
    /\ \A e, f \in DOMAIN OperatorOf : OperatorOf[e] = OperatorOf[f] => e = f \/ OperatorOf[e] = None

Allows(r, resource) == PolicyAllows(r.policy, resource, "GET")
VenueRoles == {r \in grants : r.venue # None}
EntityRoles == grants \ VenueRoles

\* The request for the list itself.
MayList(path, query) ==
    RoleIsAuthorized([method |-> "GET", path |-> path, id |-> None, query |-> query, body |-> <<>>])

(***************************************************************************)
(* RESTAPI_venue_list_handler.  Where the venues of a role's entity are    *)
(* Endless the request is never answered.                                  *)
(***************************************************************************)

\* A mutation: a role on a venue only ever adds to what is seen.
VenueListAll ==
    {r.venue : r \in {r \in VenueRoles : Allows(r, "venue")}}
      \union UNION {AllowedVenues(r.entity) : r \in {r \in EntityRoles : Allows(r, "venue")}}

VenueList ==
    LET allowed == {r.venue : r \in {r \in VenueRoles : Allows(r, "venue")}}
        denied == {r.venue : r \in {r \in VenueRoles : ~Allows(r, "venue")}}
        below == UNION {AllowedVenues(r.entity) : r \in {r \in EntityRoles : Allows(r, "venue")}}
    IN  (allowed \union below) \ denied

(***************************************************************************)
(* RESTAPI_inventory_list_handler.  A query selects the tags of an entity, *)
(* of the entity of an operator, or of a venue; the tags in no place; tags *)
(* by their identifiers; or all.  Only what is in scope is shown of it.    *)
(* The selections by subscriber and by RRM vendor are left out.            *)
(***************************************************************************)
Tags == {k[2] : k \in {k \in DOMAIN PlaceOfRow : k[1] = "inventory"}}
Tag(t) == PlaceOfRow[<<"inventory", t>>]

AllowedEntities == {r.entity : r \in {r \in EntityRoles : Allows(r, "inventory")}}

TagVenues ==
    LET allowed == {r.venue : r \in {r \in VenueRoles : Allows(r, "inventory")}}
        denied == {r.venue : r \in {r \in VenueRoles : ~Allows(r, "inventory")}}
    IN  (allowed \union UNION {VenuesOf(e) : e \in AllowedEntities}) \ denied

InScope(t) == Tag(t).entity \in AllowedEntities \/ Tag(t).venue \in TagVenues

QueriedOperator(o) == IF o \in OperatorIds THEN OperatorEntity(o) ELSE o

\* A query is a function from the name of its parameter.
Selected(query) ==
    CASE DOMAIN query = {"entity"}     -> {t \in Tags : Tag(t).entity = query["entity"]}
      [] DOMAIN query = {"operatorId"} -> {t \in Tags : Tag(t).entity = QueriedOperator(query["operatorId"])}
      [] DOMAIN query = {"venue"}      -> {t \in Tags : Tag(t).venue = query["venue"]}
      [] DOMAIN query = {"unassigned"} -> {t \in Tags : Tag(t).entity = None /\ Tag(t).venue = None}
      [] DOMAIN query = {"select"}     -> query["select"]
      [] DOMAIN query = {}             -> Tags

\* A place that is asked for by name must itself be in scope.
QueryInScope(query) ==
    CASE DOMAIN query = {"entity"}     -> query["entity"] \in AllowedEntities
      [] DOMAIN query = {"operatorId"} -> QueriedOperator(query["operatorId"]) \in AllowedEntities
      [] DOMAIN query = {"venue"}      -> query["venue"] \in TagVenues
      [] OTHER                         -> TRUE

InventoryList(query) ==
    IF QueryInScope(query) THEN {t \in Selected(query) : Exists("inventory", t) /\ InScope(t)} ELSE {}

(***************************************************************************)
(* RESTAPI_operators_list_handler                                          *)
(***************************************************************************)
OperatorList ==
    {OperatorOf[r.entity] : r \in {r \in EntityRoles : Allows(r, "operator")}} \ {None}

-----------------------------------------------------------------------------

Readable(path, id) == RoleIsAuthorized(BoundTo("GET", path, id))

Queries ==
    {<<>>} \union {[entity |-> e] : e \in AllPlaces \ AllVenues}
      \union {[venue |-> v] : v \in AllVenues} \union {[operatorId |-> o] : o \in OperatorIds}
      \union {[unassigned |-> "true"]} \union {[select |-> {t}] : t \in Tags}

-----------------------------------------------------------------------------
(* The tree of entities and venues: RESTAPI_entity_list_handler.           *)
(*                                                                         *)
(* The handler reads the user's roles and takes them one by one, in the    *)
(* order the database returns them, which is any.  A role on a venue shows *)
(* the venue and what is above it.  A role on an entity shows the entity   *)
(* and its venues, unless the entity is shown already, be it for a single  *)
(* venue.  What is shown is then put together to a tree.                   *)
(*                                                                         *)
(* Places and roles do not change while the handler runs.                  *)
(***************************************************************************)
\* Entities are below entities, and none above itself.
ASSUME TreeAssumption ==
    /\ \A e \in AllPlaces \ AllVenues : PlaceParent[e] \in (AllPlaces \ AllVenues) \union {None}
    /\ \A S \in SUBSET (AllPlaces \ AllVenues) : S # {} => \E e \in S : PlaceParent[e] \notin S

VARIABLES
    asked,      \* whether the handler is at work, or has answered last
    left,       \* the roles it has not looked at
    seen        \* the entities and venues to show, and the venues not to show

treeVars == <<asked, left, seen>>

NothingSeen == [entities |-> {}, venues |-> {}, denied |-> {}]

TreeInit == asked = FALSE /\ left = {} /\ seen = NothingSeen

\* A venue that is its own parent ends the line, and so does one that is gone.
ParentVenues ==
    [v \in AllVenues |-> IF v \in places THEN {PlaceParent[v]} \ {None, v} ELSE {}]
Ancestors(v) == Reached(ParentVenues[v], ParentVenues)

Line(v) == {v} \union Ancestors(v)

\* A line that comes back to a venue of itself.
Circular(line) == \E v \in line : v \in Ancestors(v)

\* The venues from and below, except those shown already and what is below these.
WithDescendants(from, shown) ==
    Reached(from \ shown, [v \in places \intersect AllVenues |-> ChildVenues[v] \ shown])

EntityListGet ==
    /\ ~asked
    /\ MayList("entity", <<>>)
    /\ asked' = TRUE /\ left' = grants /\ seen' = NothingSeen

AddVenueAncestors(r) ==
    /\ r.venue # None /\ Allows(r, "venue") /\ ~Circular(Line(r.venue))
    /\ seen' = [seen EXCEPT !.venues = @ \union Line(r.venue),
                            !.entities = @ \union {PlaceEntity[v] : v \in Line(r.venue) \intersect places}]

DenyVenue(r) ==
    /\ r.venue # None /\ ~Allows(r, "venue")
    /\ seen' = [seen EXCEPT !.denied = @ \union {r.venue}]

AddEntityAndDescendants(r) ==
    /\ r.venue = None /\ Allows(r, "entity") /\ r.entity \notin seen.entities
    /\ seen' = [seen EXCEPT !.entities = @ \union {r.entity},
                            !.venues = @ \union WithDescendants(VenuesOf(r.entity), @)]

\* The role shows nothing, or what is shown already.
SkipRole(r) ==
    /\ r.venue = None /\ (Allows(r, "entity") => r.entity \in seen.entities)
    /\ UNCHANGED seen

LookAt(r) ==
    /\ left' = left \ {r}
    /\ AddVenueAncestors(r) \/ DenyVenue(r) \/ AddEntityAndDescendants(r) \/ SkipRole(r)
    /\ UNCHANGED asked

\* addVenueAncestors never returns.
AncestorsEndless(r) ==
    /\ r.venue # None /\ Allows(r, "venue") /\ Circular(Line(r.venue))
    /\ asked' = FALSE /\ left' = {} /\ seen' = NothingSeen

Answered == asked /\ left = {}

ListReturned ==
    /\ Answered
    /\ asked' = FALSE /\ left' = {} /\ seen' = NothingSeen

TreeNext ==
    \/ ~asked /\ AuthNext /\ UNCHANGED treeVars
    \/ (EntityListGet \/ ListReturned \/ \E r \in left : LookAt(r) \/ AncestorsEndless(r)) /\ UNCHANGED authVars

TreeSpec == AuthInit /\ TreeInit /\ [][TreeNext]_<<authVars, treeVars>>

\* What the answer is made of: a refused venue is taken out whatever showed it.
Visible ==
    [entities |-> seen.entities \intersect places,
     venues |-> (seen.venues \ seen.denied) \intersect places]

(***************************************************************************)
(* The tree.  An entity is below its parent if that is seen, a venue below *)
(* its parent venue or its entity; what is below nothing is a root.        *)
(***************************************************************************)
\* A mutation: only venues without a parent venue may be roots.
RootsBare(shown) ==
    {e \in shown.entities : PlaceParent[e] \notin shown.entities}
      \union {v \in shown.venues : PlaceParent[v] = None /\ PlaceEntity[v] \notin shown.entities}

Roots(shown) ==
    {e \in shown.entities : PlaceParent[e] \notin shown.entities}
      \union {v \in shown.venues : IF PlaceParent[v] # None THEN PlaceParent[v] \notin shown.venues
                                   ELSE PlaceEntity[v] \notin shown.entities}

Children(shown, p) ==
    IF p \in AllVenues THEN {v \in shown.venues : PlaceParent[v] = p}
    ELSE {e \in shown.entities : PlaceParent[e] = p}
           \union {v \in shown.venues : PlaceParent[v] = None /\ PlaceEntity[v] = p}

Tree(shown) ==
    Reached(Roots(shown), [p \in shown.entities \union shown.venues |-> Children(shown, p)])

\* Whether the devices of a node are shown: the role on the venue decides, or else the
\* one on its entity.
DevicesShown(p) ==
    LET onVenue == {r \in VenueRoles : r.venue = p}
        onEntity == {r \in EntityRoles : r.entity = Entity(p)}
    IN  \E r \in (IF onVenue # {} THEN onVenue ELSE onEntity) : Allows(r, "inventory")

-----------------------------------------------------------------------------

(***************************************************************************)
(* What the lists show and what a GET of the single row lets the user      *)
(* read.  The operators are the same.  The list of venues has every        *)
(* readable one, and others only below a venue of an entity that is not    *)
(* their own and has a role that reads venues.  Of the tags of a query     *)
(* that are in one place the list has exactly the readable ones (a tag     *)
(* that is only a subscriber's is readable and never listed); a tag in two *)
(* is listed, without a query, at least where it can be read.  About the   *)
(* scopes each list handler works out.  The root entity always exists, so  *)
(* there is a place; the places and roles stay as they are while a tree is *)
(* put together, so the states in between do.  Where an entity with a role *)
(* is Endless neither answers.                                             *)
(***************************************************************************)
Finite == \A r \in EntityRoles : ~Endless(r.entity)
OnePlace(t) == (Tag(t).entity = None) # (Tag(t).venue = None)

ListsShowReadable == places # {} /\ ~asked /\ Finite =>
    /\ LET readable == {v \in places \intersect AllVenues : Readable("venue", v)}
           listed == IF MayList("venue", <<>>) THEN VenueList ELSE {}
       IN  /\ readable \subseteq listed
           /\ \A v \in listed \ readable : \E r \in EntityRoles :
                 Allows(r, "venue") /\ r.entity # PlaceEntity[v] /\ v \in AllowedVenues(r.entity)
    /\ (IF MayList("operator", <<>>) THEN OperatorList ELSE {})
         = {o \in OperatorIds : OperatorEntity(o) \in places /\ Readable("operator", o)}
    /\ LET placed == {t \in Tags : Exists("inventory", t) /\ {Tag(t).entity, Tag(t).venue} # {None}}
           readable == {t \in placed : Readable("inventory", t)}
           single == {t \in Tags : OnePlace(t)}
           listed(query) == IF MayList("inventory", query) THEN InventoryList(query) ELSE {}
       IN  /\ \A query \in Queries :
                 listed(query) \intersect single = Selected(query) \intersect readable \intersect single
           /\ readable \subseteq listed(<<>>)

(***************************************************************************)
(* Whatever the order of the roles, the tree holds every entity that is to *)
(* be shown, and every venue also below a parent that is not, except what  *)
(* is on or below a circle of venues.  The venues with a role that allows  *)
(* to read them are shown.  A venue shown is one the user may read, or     *)
(* lies above one with such a role, or below a venue of an entity with a   *)
(* role that reads entities, if that role does not read venues or the      *)
(* entity is not the venue's own.  A venue of an entity with a reading     *)
(* role is missing only if it is refused by a role of its own or the       *)
(* entity has a venue with a reading role or above one.  The devices of a  *)
(* place are shown exactly to who may read them, of those in one place.    *)
(* About addEntityAndDescendants, addVenueAncestors and the tree built of  *)
(* both.                                                                   *)
(***************************************************************************)
TreeShowsSeen ==
    Answered =>
        LET reads == {r.venue : r \in {r \in VenueRoles : Allows(r, "venue")}}
            refused == {r.venue : r \in {r \in VenueRoles : ~Allows(r, "venue")}}
            opened == {r \in EntityRoles : Allows(r, "entity")}
            missing == (Visible.entities \union Visible.venues) \ Tree(Visible)
        IN  /\ \A p \in missing : p \in AllVenues /\ PlaceParent[p] \in missing
            /\ reads \subseteq Visible.venues
            /\ \A v \in Visible.venues :
                  \/ Readable("venue", v) \/ Endless(PlaceEntity[v])
                  \/ \E w \in reads : v \in Ancestors(w)
                  \/ \E r \in opened : /\ v \in AllowedVenues(r.entity)
                                       /\ ~Allows(r, "venue") \/ r.entity # PlaceEntity[v]
            /\ \A r \in opened :
                  (\A w \in reads : \A v \in Line(w) \intersect places : PlaceEntity[v] # r.entity) =>
                      VenuesOf(r.entity) \ refused \subseteq Visible.venues
            /\ \A t \in Tags :
                  LET place == Or(Tag(t).venue, Tag(t).entity)
                  IN  Exists("inventory", t) /\ OnePlace(t) /\ ~Endless(Entity(place)) =>
                          (DevicesShown(place) <=> Readable("inventory", t))
=============================================================================
