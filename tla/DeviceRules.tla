---------------------------- MODULE DeviceRules ----------------------------
(***************************************************************************)
(* What the rules of a device (firmware upgrade, release candidates, RRM)  *)
(* come to: a rule left on "inherit" is taken from the venue the device is *)
(* in, from what is above it, and at last from the service's               *)
(* configuration.  The walk ends early once no rule is left on "inherit".  *)
(*                                                                         *)
(* The tag and every place are read by a query of their own, so that they  *)
(* may be changed while the walk is under way.  Places are not moved or    *)
(* deleted meanwhile.                                                      *)
(*                                                                         *)
(* A place that sets a rule sets it to a value of its own, so that a value *)
(* tells where it comes from.                                              *)
(***************************************************************************)
EXTENDS Naturals, Lines

CONSTANTS
    RuleEntityOf, RuleParentOf,     \* the entity of a venue, the parent of a place
    Rules, NoOne,                   \* the rules; the empty string
    TheDevice, TheService,          \* the other two that set rules
    MaxRulePuts                     \* a bound: how often a record is changed

RuleVenues == DOMAIN RuleEntityOf
RulePlaces == DOMAIN RuleParentOf
Inherit == "inherit"

\* What is above a place: its parent, a venue without one its entity.
Upwards ==
    [p \in RulePlaces |->
        IF p \in RuleVenues /\ RuleParentOf[p] = NoOne THEN RuleEntityOf[p] ELSE RuleParentOf[p]]

\* No place is above itself.
ASSUME DeviceRulesAssumption ==
    /\ RuleVenues \subseteq RulePlaces
    /\ {NoOne, TheDevice, TheService, Inherit} \intersect RulePlaces = {}
    /\ TheDevice # TheService /\ Inherit \notin {TheDevice, TheService}
    /\ \A p \in RulePlaces : Upwards[p] \in RulePlaces \union {NoOne}
    /\ NoneAboveItself(Upwards)

VARIABLES
    sets,       \* sets[x]: the rules x sets, x a place or the device
    placed,     \* the place of the device
    start, at,  \* where the walk began, and the place it reads next; NoOne: none
    evaluated,  \* the rules so far; as last evaluated when the walk has ended
    changed,    \* what was changed since the device was read
    rulePuts    \* how often something was changed

rulesVars == <<sets, placed, start, at, evaluated, changed, rulePuts>>

DeviceRulesOf(x) == [r \in Rules |-> IF r \in sets[x] THEN x ELSE Inherit]
Unevaluated == [r \in Rules |-> Inherit]

RulesInit ==
    /\ sets \in [RulePlaces \union {TheDevice} -> SUBSET Rules]
    /\ placed \in RulePlaces \union {NoOne}
    /\ start = NoOne /\ at = NoOne /\ evaluated = Unevaluated
    /\ changed = {} /\ rulePuts = 0

ApplyRules(rules, result) ==
    [r \in Rules |-> IF result[r] = Inherit THEN rules[r] ELSE result[r]]

\* A mutation: the walk ends as soon as one rule is settled.
AllOpen(result) == \A r \in Rules : result[r] = Inherit

Open(result) == \E r \in Rules : result[r] = Inherit

ApplyConfigRules(result) ==
    [r \in Rules |-> IF result[r] = Inherit THEN TheService ELSE result[r]]

\* A tag in an entity is evaluated with its (empty) venue for the entity: nothing is
\* found and the rules of the service apply.
ReadDevice ==
    LET own == DeviceRulesOf(TheDevice)
        venue == IF placed \in RuleVenues THEN placed ELSE NoOne
    IN  /\ at = NoOne
        /\ start' = venue /\ at' = venue /\ changed' = {}
        /\ evaluated' = IF venue # NoOne THEN own ELSE ApplyConfigRules(own)
        /\ UNCHANGED <<sets, placed, rulePuts>>

\* The rules of the place are applied; the walk goes on to next, or ends.
ApplyAndGoOn(next) ==
    LET now == ApplyRules(DeviceRulesOf(at), evaluated)
    IN  /\ at' = IF Open(now) THEN next ELSE NoOne
        /\ evaluated' = IF Open(now) /\ next = NoOne THEN ApplyConfigRules(now) ELSE now
        /\ UNCHANGED <<sets, placed, start, changed, rulePuts>>

ReadVenue ==
    /\ at \in RuleVenues
    /\ ApplyAndGoOn(IF RuleParentOf[at] # NoOne THEN RuleParentOf[at] ELSE RuleEntityOf[at])

ReadEntity ==
    /\ at \in RulePlaces \ RuleVenues
    /\ ApplyAndGoOn(RuleParentOf[at])

\* A PUT of a place or of the device changes its rules.
RulesPut(x, rules) ==
    /\ rulePuts < MaxRulePuts /\ rulePuts' = rulePuts + 1
    /\ sets' = [sets EXCEPT ![x] = rules]
    /\ changed' = changed \union {x}
    /\ UNCHANGED <<placed, start, at, evaluated>>

DeviceMoved(p) ==
    /\ rulePuts < MaxRulePuts /\ rulePuts' = rulePuts + 1
    /\ placed' = p
    /\ changed' = changed \union {TheDevice}
    /\ UNCHANGED <<sets, start, at, evaluated>>

RulesNext ==
    \/ ReadDevice \/ ReadVenue \/ ReadEntity
    \/ \E x \in DOMAIN sets, rules \in SUBSET Rules : RulesPut(x, rules)
    \/ \E p \in RulePlaces \union {NoOne} : DeviceMoved(p)

RulesSpec == RulesInit /\ [][RulesNext]_rulesVars

-----------------------------------------------------------------------------

\* A place and everything above it.
Above(p) == Line(Upwards, p)

(***************************************************************************)
(* Each rule of an evaluated device is what the nearest says that does not *)
(* leave it open: the device, a place from its venue on upwards, or the    *)
(* service; each rule by itself, whichever of them ended the walk.  What   *)
(* was changed since the walk began may have been read before or after the *)
(* change, and affects no other.  About EvaluateDeviceRules of inventory,  *)
(* venue and entity tables.                                                *)
(***************************************************************************)
NearestRuleApplies ==
    at = NoOne /\ evaluated # Unevaluated =>
        /\ TheDevice \notin changed => start = IF placed \in RuleVenues THEN placed ELSE NoOne
        /\ \A r \in Rules :
              LET x == evaluated[r]
                  nearer == {TheDevice} \union (Above(start) \ Above(x))
              IN  /\ x \in {TheDevice, TheService} \union Above(start)
                  /\ x \notin changed \union {TheService} => r \in sets[x]
                  /\ x # TheDevice => \A y \in nearer \ changed : r \notin sets[y]
=============================================================================
