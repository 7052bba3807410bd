------------------------- MODULE OperationInventory -------------------------
(***************************************************************************)
(* The operations an OpenAPI document declares (openapi-inventory.ts) and  *)
(* their selection by a rule (authoring-contract.ts:780-856).  A document  *)
(* is the sequence of its path items; a path item gives each method that it*)
(* has an operation, whose operationId and tags may be invalid.            *)
(***************************************************************************)
EXTENDS Naturals, Sequences, SequencesExt, AscendingOrder

\* In the order in which fromOpenApi looks for them.
SupportedMethods == <<"delete", "get", "head", "patch", "post", "put">>

InvalidId   == "not an operationId"
InvalidTags == {"not tags"}

\* The operations of a path item; other methods are passed over.
OperationsOf(item) ==
    LET present == ElementsAt(SupportedMethods,
                       {i \in DOMAIN SupportedMethods :
                           SupportedMethods[i] \in DOMAIN item.methods})
    IN  [i \in DOMAIN present |->
            [operationId   |-> item.methods[present[i]].operationId,
             method        |-> present[i],
             path          |-> item.path,
             parameterized |-> item.parameterized,
             tags          |-> item.methods[present[i]].tags]]

OperationIds(operations) ==
    {operations[i].operationId : i \in DOMAIN operations}

\* The operations of an accepted document, in document order.
FromOpenApi(document) ==
    FlattenSeq([i \in DOMAIN document |-> OperationsOf(document[i])])

\* Mutation of Accepted: operationIds are compared within a path item.
AcceptedPerItem(document) ==
    LET operations == FromOpenApi(document) IN
    /\ InvalidId \notin OperationIds(operations)
    /\ \A i \in DOMAIN operations : operations[i].tags # InvalidTags
    /\ \A i, j \in DOMAIN operations :
          /\ operations[i].path = operations[j].path
          /\ operations[i].operationId = operations[j].operationId
          => i = j

\* fromOpenApi does not throw.
Accepted(document) ==
    LET operations == FromOpenApi(document) IN
    /\ InvalidId \notin OperationIds(operations)
    /\ \A i \in DOMAIN operations : operations[i].tags # InvalidTags
    /\ \A i, j \in DOMAIN operations :
          operations[i].operationId = operations[j].operationId => i = j

-----------------------------------------------------------------------------
(* A selection is [by |-> "all"], [by |-> "ids", ids |-> <<...>>] or       *)
(* [by |-> "tags", tags |-> {...}].                                        *)

WithId(inventory, id) ==
    inventory[CHOOSE i \in DOMAIN inventory : inventory[i].operationId = id]

\* Mutation of SelectById: an operation is taken as often as it is named.
SelectByIdRepeatedly(inventory, ids) ==
    [i \in DOMAIN ids |-> WithId(inventory, ids[i])]

\* uniqueOperations: at the first place at which its id is named.
SelectById(inventory, ids) ==
    LET firsts == {i \in DOMAIN ids : \A j \in 1..(i - 1) : ids[j] # ids[i]}
        named  == ElementsAt(ids, firsts)
    IN  [i \in DOMAIN named |-> WithId(inventory, named[i])]

SelectByTag(inventory, tags) ==
    ElementsAt(inventory,
               {i \in DOMAIN inventory : inventory[i].tags \cap tags # {}})

Selected(inventory, selection) ==
    CASE selection.by = "all"  -> inventory
      [] selection.by = "ids"  -> SelectById(inventory, selection.ids)
      [] selection.by = "tags" -> SelectByTag(inventory, selection.tags)

KnownTags(inventory) ==
    UNION {inventory[i].tags : i \in DOMAIN inventory}

\* selectOperations and assertRulesSupportOperations do not throw.
Selectable(inventory, selection) ==
    /\ selection.by = "ids" =>
          \A i \in DOMAIN selection.ids :
             selection.ids[i] \in OperationIds(inventory)
    /\ selection.by = "tags" => selection.tags \subseteq KnownTags(inventory)
    /\ LET selected == Selected(inventory, selection) IN
       \A i \in DOMAIN selected : ~selected[i].parameterized
=============================================================================
