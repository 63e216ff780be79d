------------------------------ MODULE Contexts ------------------------------
(***************************************************************************)
(* The context of the application and the clones that event threads make   *)
(* of it (Context/Context.c), the SASL plugins registered with them        *)
(* (Context/SaslPlugins.c, Plugin/Sasl.c) and what each has to give back   *)
(* before it is destroyed.                                                 *)
(*                                                                         *)
(* A clone copies the head of the plugin list, not the list.  As the       *)
(* library uses them: plugins are registered with the application's        *)
(* context, at any time; a clone is destroyed before its original.         *)
(***************************************************************************)
EXTENDS Integers, Sequences, FiniteSets, SequencesExt

CONSTANTS
    Root,               \* the application's context
    Clones,             \* the contexts of event threads
    Mechanisms,         \* names of plugins
    NameLength,         \* their lengths
    Base,               \* the number of values of a byte
    MaxPlugins,         \* bound: plugins registered
    MaxInstances        \* bound: instances of plugins at a time, of a context

Contexts == {Root} \cup Clones

VARIABLES
    alive,              \* the contexts that exist
    nodes,              \* the plugin nodes, in the order of registration
    link,               \* the next node of each
    sasl_plugin_list,   \* the first node each context knows
    instances,          \* plugin instances of each context
    outstanding,        \* outstanding_allocations of each
    report              \* what destroying each answered: all was returned

vars == <<alive, nodes, link, sasl_plugin_list, instances, outstanding, report>>

\* allocations that come with a context: the descriptors and the container id
Furniture == 2

Init ==
    /\ alive = {} /\ nodes = << >> /\ link = << >>
    /\ sasl_plugin_list = [c \in Contexts |-> 0]
    /\ instances = [c \in Contexts |-> << >>]
    /\ outstanding = [c \in Contexts |-> 0]
    /\ report = [c \in Contexts |-> "none"]

RECURSIVE Chain(_)
Chain(n) == IF n = 0 THEN << >> ELSE <<n>> \o Chain(link[n])
PluginsOf(c) == Chain(sasl_plugin_list[c])

amqp_create_context ==
    /\ alive = {} /\ report[Root] = "none"
    /\ alive' = {Root}
    /\ outstanding' = [outstanding EXCEPT ![Root] = Furniture]
    /\ UNCHANGED <<nodes, link, sasl_plugin_list, instances, report>>

amqp_context_clone(c) ==
    /\ Root \in alive /\ c \in Clones \ alive
    /\ alive' = alive \cup {c}
    /\ sasl_plugin_list' = [sasl_plugin_list EXCEPT ![c] = sasl_plugin_list[Root]]
    /\ report' = [report EXCEPT ![c] = "none"]
    /\ UNCHANGED <<nodes, link, instances, outstanding>>

\* Mutant of amqp_context_register_sasl_plugin: the node goes to the front.
RegisterAtFront(m) ==
    /\ Root \in alive /\ Len(nodes) < MaxPlugins
    /\ nodes' = Append(nodes, m)
    /\ link' = Append(link, sasl_plugin_list[Root])
    /\ sasl_plugin_list' = [sasl_plugin_list EXCEPT ![Root] = Len(nodes')]
    /\ outstanding' = [outstanding EXCEPT ![Root] = @ + 2]
    /\ UNCHANGED <<alive, instances, report>>

\* The plugin and its node are allocated; the node goes to the end of the list.
amqp_context_register_sasl_plugin(m) ==
    /\ Root \in alive /\ Len(nodes) < MaxPlugins
    /\ LET list == PluginsOf(Root)
           new == Len(nodes) + 1
       IN  /\ nodes' = Append(nodes, m)
           /\ IF list = << >>
              THEN /\ sasl_plugin_list' = [sasl_plugin_list EXCEPT ![Root] = new]
                   /\ link' = Append(link, 0)
              ELSE /\ link' = Append([link EXCEPT ![Last(list)] = new], 0)
                   /\ UNCHANGED sasl_plugin_list
    /\ outstanding' = [outstanding EXCEPT ![Root] = @ + 2]
    /\ UNCHANGED <<alive, instances, report>>

\* amqp_context_lookup_sasl_plugin: an instance of the first plugin of that name
amqp_context_lookup_sasl_plugin(c, m) ==
    /\ c \in alive /\ Len(instances[c]) < MaxInstances
    /\ LET found == SelectInSeq(PluginsOf(c), LAMBDA n : nodes[n] = m)
       IN  /\ found # 0
           /\ instances' = [instances EXCEPT ![c] = Append(@, PluginsOf(c)[found])]
    /\ outstanding' = [outstanding EXCEPT ![c] = @ + 1]
    /\ UNCHANGED <<alive, nodes, link, sasl_plugin_list, report>>

\* amqp_sasl_plugin_instance_cleanup, with the context of the connection
amqp_sasl_plugin_instance_cleanup(c) ==
    /\ c \in alive /\ instances[c] # << >>
    /\ instances' = [instances EXCEPT ![c] = Front(@)]
    /\ outstanding' = [outstanding EXCEPT ![c] = @ - 1]
    /\ UNCHANGED <<alive, nodes, link, sasl_plugin_list, report>>

\* what amqp_context_destroy frees: amqp_context_free_sasl_plugins,
\* amqp_descriptors_cleanup and the container id, and nothing of a clone
OwnBlocks(c) == IF c = Root THEN 2 * Len(PluginsOf(c)) + Furniture ELSE 0

amqp_context_destroy(c) ==
    /\ c \in alive
    /\ c = Root => alive = {Root}
    /\ alive' = alive \ {c}
    /\ report' = [report EXCEPT ![c] = IF outstanding[c] = OwnBlocks(c) THEN "clean" ELSE "leak"]
    /\ outstanding' = [outstanding EXCEPT ![c] = 0]
    /\ sasl_plugin_list' = [sasl_plugin_list EXCEPT ![c] = 0]
    /\ instances' = [instances EXCEPT ![c] = << >>]
    /\ nodes' = (IF c = Root THEN << >> ELSE nodes)
    /\ link' = (IF c = Root THEN << >> ELSE link)

-----------------------------------------------------------------------------
(* The mechanisms a server offers *)

Names(c) == [i \in DOMAIN PluginsOf(c) |-> nodes[PluginsOf(c)[i]]]
TotalLength(names) == FoldLeft(LAMBDA sum, m : sum + NameLength[m], 0, names)
LongName(names) == \E m \in ToSet(names) : NameLength[m] > Base - 2

InShortArray(names) == TotalLength(names) + Len(names) < Base - 2

\* amqp_sasl_mechanisms_encode: a symbol or an array of them; as soon as one name of a
\* long array is long, each is there with a long and then with a short size
Offer(names) ==
    LET Elements(format) == [i \in DOMAIN names |-> [format |-> format, name |-> names[i]]]
        Twice == FlattenSeq([i \in DOMAIN names |-> <<[format |-> "sym32", name |-> names[i]],
                                                    [format |-> "sym8", name |-> names[i]]>>])
    IN  CASE Len(names) = 1 ->
               [as |-> "symbol",
                elements |-> Elements(IF NameLength[names[1]] < Base THEN "sym8" ELSE "sym32")]
          [] Len(names) > 1 /\ InShortArray(names) ->
               [as |-> "array8", elements |-> Elements("sym8")]
          [] OTHER ->
               [as |-> "array32", elements |-> IF LongName(names) THEN Twice ELSE Elements("sym8")]

\* the size field of an array: of the count, a constructor and the elements
ArraySize(names) == 2 + TotalLength(names) + Len(names)

-----------------------------------------------------------------------------
Next ==
    \/ amqp_create_context
    \/ \E m \in Mechanisms : amqp_context_register_sasl_plugin(m)
    \/ \E c \in Clones : amqp_context_clone(c)
    \/ \E c \in Contexts :
        \/ \E m \in Mechanisms : amqp_context_lookup_sasl_plugin(c, m)
        \/ amqp_sasl_plugin_instance_cleanup(c)
        \/ amqp_context_destroy(c)

Spec == Init /\ [][Next]_vars

-----------------------------------------------------------------------------
\* The type invariant.
TypeOK ==
    /\ alive \subseteq Contexts
    /\ \A c \in Contexts : outstanding[c] \in Nat /\ sasl_plugin_list[c] \in 0 .. Len(nodes)
    /\ Len(link) = Len(nodes)

\* A clone sees every plugin its original has, in the same order, also the
\* ones registered after it was made, unless it was made before the first.
\* (amqp_context_clone copies the head of a list that only grows at its end.)
ClonesSeeAll ==
    \A c \in alive : PluginsOf(c) \in {PluginsOf(Root), << >>}

\* An instance is of a plugin that still exists, and of the first of its
\* name, whatever was registered since (amqp_context_lookup_sasl_plugin).
InstancesOfFirst ==
    \A c \in alive : \A n \in ToSet(instances[c]) :
        n \in ToSet(PluginsOf(Root)) /\ \A k \in ToSet(PluginsOf(Root)) : nodes[k] = nodes[n] => n <= k

\* While no name is long, the offer of a server names every plugin once, in the
\* order of registration, in an encoding whose size field it fits
\* (amqp_sasl_mechanisms_encode).
OfferWhole ==
    \A c \in alive : LET names == Names(c)
                         offer == Offer(names)
                     IN  names # << >> /\ ~LongName(names) =>
                           /\ [i \in DOMAIN offer.elements |-> offer.elements[i].name] = names
                           /\ \A e \in ToSet(offer.elements) : e.format = offer.elements[1].format
                           /\ offer.as = "array8" => ArraySize(names) < Base

\* Destroying a context reports a leak exactly when an instance was not
\* cleaned up: what a context allocates for itself it also frees
\* (amqp_context_destroy, amqp_check_allocation_count).
ReportsLeaks ==
    [][\A c \in alive \ alive' :
         report'[c] = IF instances[c] = << >> THEN "clean" ELSE "leak"]_vars
=============================================================================
