----------------------- MODULE MCAuthorizationContract -----------------------
EXTENDS AuthorizationContract

\* Three operations, the last with a parameterized path.
MCDocument ==
    <<[path |-> "/devices", parameterized |-> FALSE,
       methods |-> [get  |-> [operationId |-> "list", tags |-> {"devices"}],
                    post |-> [operationId |-> "add",
                              tags |-> {"devices", "admin"}]]],
      [path |-> "/devices/{id}", parameterized |-> TRUE,
       methods |-> [get |-> [operationId |-> "read", tags |-> {"one"}]]]>>

MCInventory == FromOpenApi(MCDocument)

MCSelection ==
    {[by |-> "all"],
     [by |-> "ids", ids |-> <<>>],
     [by |-> "ids", ids |-> <<"add", "list", "add">>],
     [by |-> "ids", ids |-> <<"list", "gone">>],
     [by |-> "tags", tags |-> {"admin"}],
     [by |-> "tags", tags |-> {"one"}]}

\* An explicit case may declare an operation whose id is that of another.
MCCaseOperation ==
    {[id |-> "list", target |-> <<"get", "/devices">>],
     [id |-> "list", target |-> <<"get", "/devices/">>]}

MCPosition == [list |-> 1, add |-> 2, read |-> 3]

\* Declarations of the same description have the same slug.
MCGeneratedId(description, operationId, name) ==
    10 * (IF description = "reading" THEN 2 ELSE 1)
    + 3 * (MCPosition[operationId] - 1)
    + (IF name = "user" THEN 1 ELSE 2)

\* The first of these is also a generated id.
MCExplicitId == {11, 30}
=============================================================================
