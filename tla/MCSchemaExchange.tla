-------------------------- MODULE MCSchemaExchange --------------------------
(* Three schemas for SchemaExchange; a number stands for a string of so many *)
(* characters.                                                               *)
EXTENDS SchemaExchange

Param(key, type, default, options) ==
  [names |-> <<0, 2, key>>, type |-> type, default |-> default,
   options |-> options]

\* Every kind of parameter, in two scenes of which one has no name.
Mixed ==
  [head |-> <<3, 1, 0, 2>>, channels |-> <<2, 5>>,
   scenes |->
     <<[name |-> 4, hash |-> 0, parameters |->
          <<Param(1, 0, 7, <<>>), Param(2, 2, 0, <<>>), Param(3, 4, 6, <<3>>),
            Param(4, 5, 1, <<>>)>>],
       [name |-> 0, hash |-> 0, parameters |-> <<>>]>>]

\* The same scene after it was edited, its hash given: a matrix first, and a
\* text of the same key as a number before.  In the second scene, which is
\* not laid out, there is a type this version does not know.
Edited ==
  [head |-> <<0, 0, 0, 0>>, channels |-> <<>>,
   scenes |->
     <<[name |-> 4, hash |-> 9, parameters |->
          <<Param(2, 3, 0, <<>>), Param(4, 1, 0, <<1, 2>>),
            Param(1, 4, 2, <<>>), Param(3, 0, 2, <<>>)>>],
       [name |-> 6, hash |-> 0, parameters |-> <<Param(5, 7, 3, <<2>>)>>]>>]

MCAssets == <<Mixed, Edited, NoSchema>>
=============================================================================
