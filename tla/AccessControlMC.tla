-------------------------- MODULE AccessControlMC --------------------------
(***************************************************************************)
(* Instances of AccessControl and Authorization for TLC.  A behaviour      *)
(* follows the tables and the cache, the decisions taken from them, or the *)
(* lists and the tree, so that the three add up.  The last leaves out the  *)
(* places the user creates with a role: root makes the same places and     *)
(* grants, and lists and tree depend on no more.  Threads, users, venues   *)
(* and what a policy grants are only compared for equality.                *)
(***************************************************************************)
EXTENDS AccessControl, Listings, TLC

CONSTANTS Follows,   \* what the behaviours of a run follow
          MaxPlaces, \* bound: entities and venues at a time
          MaxGrants, \* bound: roles of the user
          p1, p2, u1, u2, s1, s2, s3, q1, r1, r2, r3, r4, weak, strong

Symmetric == Permutations(Threads) \union Permutations(Users)
               \union Permutations(Venues) \union Permutations(Contents)

\* The root, the entity of an operator, an entity of it and venues: one below another of
\* its entity, one below a venue of another entity, and two below each other.
MCPlaceParent == [root |-> "", o1 |-> "root", e1 |-> "o1", v1 |-> "", v2 |-> "v1", v3 |-> "v2",
                  v4 |-> "v5", v5 |-> "v4"]
MCPlaceEntity == [v1 |-> "o1", v2 |-> "o1", v3 |-> "e1", v4 |-> "e1", v5 |-> "o1"]
MCOperatorOf == [root |-> "", o1 |-> "operator1", e1 |-> ""]

Row(entity, venue, operator) == [entity |-> entity, venue |-> venue, operator |-> operator]
MCPlaceOfRow ==
    <<"inventory", "tag1">> :> Row("", "v1", "") @@ <<"inventory", "tag2">> :> Row("", "v2", "")
      @@ <<"inventory", "tag3">> :> Row("e1", "", "") @@ <<"inventory", "tag4">> :> Row("", "", "operator1")
      @@ <<"inventory", "tag5">> :> Row("o1", "v3", "")
      @@ <<"configuration", "c1">> :> Row("o1", "", "") @@ <<"configuration", "c2">> :> Row("", "v1", "")
      @@ <<"contact", "k1">> :> Row("e1", "", "") @@ <<"location", "l1">> :> Row("o1", "", "")
      @@ <<"map", "m1">> :> Row("o1", "", "") @@ <<"managementPolicy", "q1">> :> Row("o1", "", "")
      @@ <<"serviceClass", "sc1">> :> Row("", "", "operator1")
      @@ <<"subscriber", "sub1">> :> Row("", "", "operator1")
      @@ <<"subscriberDevice", "sd1">> :> Row("", "", "operator1")

Entry(resources, access) == [resources |-> resources, access |-> access]
MCPolicyEntries ==
    [keeper |-> {Entry({"entity", "venue"}, {"MODIFY"}), Entry({"inventory"}, {"FULL"})},
     owner  |-> {Entry({"*"}, {"READ", "CREATE", "DELETE"})}]

\* For the lists: policies that differ in which resources may be read.
MCListPolicies ==
    [all      |-> {Entry({"*"}, {"READ"})},
     venues   |-> {Entry({"venue", "inventory"}, {"READWRITE"})},
     entities |-> {Entry({"entity", "operator"}, {"READ"})}]

VARIABLE follows
mcvars == <<vars, authVars, treeVars, follows>>

MCInit ==
    /\ follows \in Follows
    /\ Init /\ (follows # "cache" => live = {})
    /\ TreeInit
    /\ IF follows # "cache" THEN AuthInit
       ELSE places = {} /\ grants = {} /\ made = <<>>

MCNext ==
    /\ UNCHANGED follows
    /\ \/ follows = "cache" /\ Next /\ UNCHANGED <<authVars, treeVars>>
       \/ follows = "decisions" /\ AuthNext /\ UNCHANGED <<vars, treeVars>>
       \/ follows = "tree" /\ TreeNext /\ UNCHANGED <<vars, made>>
    /\ Cardinality(places') <= MaxPlaces /\ Cardinality(grants') <= MaxGrants

MCSpec == MCInit /\ [][MCNext]_mcvars
=============================================================================
