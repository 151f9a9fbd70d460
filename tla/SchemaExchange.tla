--------------------------- MODULE SchemaExchange ---------------------------
(***************************************************************************)
(* The schema of a project and the parameters that are laid out by it.     *)
(* The editor saves the schema to a file (rs_saveSchema); the host loads   *)
(* it (rs_loadSchema, called twice) or builds it, and completes it         *)
(* (rs_setSchema); a client is sent what the agent finds in the file       *)
(* (LoadSchema), sets parameters by key and sends all of them with each    *)
(* tick, as floats in a row; the host takes the row (rs_getFrameParameters)*)
(* and reads it by its own schema.  Processes of their own, no lock on the *)
(* file.  That the host gets the newest tick is FrameLink's business.      *)
(***************************************************************************)
EXTENDS SchemaFormat

CONSTANTS Assets,      \* the schemas a host or editor may build, in C
          MatrixSide,  \* rows of a matrix, 4 in the code
          MaxSaves,    \* bound: calls of rs_saveSchema
          NewValues,   \* what an application sets parameters to
          MaxSets      \* bound: calls of SetParameters after a LoadSchema

ASSUME BoundsAssumption ==
  MatrixSide \in Nat \ {0} /\ MaxSaves \in Nat /\ MaxSets \in Nat /\
  NewValues \subseteq Nat

ASSUME AssetsAssumption == Assets \in Seq(Schemas(Nat))

VARIABLES
  file, editor, saves,  \* the JSON file; what the editor is writing to it
  host, nBytes,         \* the host's Schema, the size of the buffer it is in
                        \* and what was written there; rs_loadSchema's size
  client, sets,         \* schema_, param_map_, param_values_, and what the
                        \* application has set
  frame                 \* the tick that is published

fileVars   == <<file, editor, saves>>
hostVars   == <<host, nBytes>>
clientVars == <<client, sets>>
vars == <<fileVars, hostVars, clientVars, frame>>

\* Everything that comes from an asset carries its number, 0 for none.
Asset == DOMAIN Assets

HostWith(asset, schema, size, regions) ==
  [asset |-> asset, schema |-> schema, complete |-> FALSE,
   size |-> size, regions |-> regions]

NoClient == [asset |-> 0, schema |-> NoSchema, param_map |-> <<>>,
             param_values |-> <<>>, assigned |-> <<>>]

NoFrame == [asset |-> 0, values |-> <<>>, assigned |-> <<>>]

Init ==
  /\ file = [state |-> "none", asset |-> 0, schema |-> NoSchema]
  /\ editor = 0 /\ saves = 0
  /\ host = HostWith(0, NoSchema, 0, <<>>) /\ nBytes = 0
  /\ client = NoClient /\ sets = 0 /\ frame = NoFrame

-----------------------------------------------------------------------------
(* The editor: the file is truncated when it is opened, then written.       *)

SaveOpen(a) ==
  /\ editor = 0 /\ saves < MaxSaves
  /\ editor' = a /\ saves' = saves + 1
  /\ file' = [state |-> "torn", asset |-> 0, schema |-> NoSchema]
  /\ UNCHANGED <<hostVars, clientVars, frame>>

SaveWrite ==
  /\ editor # 0 /\ editor' = 0
  /\ file' = [state |-> "whole", asset |-> editor,
              schema |-> ToJson(FromC(Assets[editor]))]
  /\ UNCHANGED <<saves, hostVars, clientVars, frame>>

\* dump() throws on a text that is not UTF-8: the file stays empty.
SaveThrows ==
  /\ editor # 0 /\ editor' = 0
  /\ UNCHANGED <<file, saves, hostVars, clientVars, frame>>

\* A file that is empty or cut is no JSON.
Loadable == file.state = "whole"

Loaded == FromJson(file.schema)

-----------------------------------------------------------------------------
(* The host. *)

BuildSchema(a) ==
  /\ host' = HostWith(a, Assets[a], 0, <<>>)
  /\ UNCHANGED <<fileVars, nBytes, clientVars, frame>>

\* rs_loadSchema without a buffer.
LoadSize ==
  /\ nBytes' = IF Loadable THEN Bytes(Loaded) ELSE SchemaSize
  /\ UNCHANGED <<fileVars, host, clientVars, frame>>

\* rs_loadSchema with a buffer of the size it named before.  Of a file that
\* cannot be read a Schema is cleared, whatever size is given: the parameter is
\* a Schema*, and no size it has named is smaller.
LoadNotFound ==
  /\ nBytes > 0 /\ ~Loadable
  /\ host' = HostWith(0, NoSchema, nBytes, Put(<<>>, PackAlign, SchemaSize))
  /\ UNCHANGED <<fileVars, nBytes, clientVars, frame>>

LoadOverflow ==
  /\ nBytes > 0 /\ Loadable /\ nBytes < Bytes(Loaded)
  /\ nBytes' = Bytes(Loaded)
  /\ UNCHANGED <<fileVars, host, clientVars, frame>>

LoadInto ==
  /\ nBytes > 0 /\ Loadable /\ nBytes >= Bytes(Loaded)
  /\ host' = HostWith(file.asset, ToC(Loaded), nBytes, Written(Loaded))
  /\ nBytes' = SchemaSize
  /\ UNCHANGED <<fileVars, clientVars, frame>>

FillHashM(sc) ==  \* a hash that is there already is replaced
  IF sc.name # 0 THEN [sc EXCEPT !.hash = HashOf(sc.name)] ELSE sc

FillHash(sc) ==
  IF sc.hash = 0 /\ sc.name # 0
  THEN [sc EXCEPT !.hash = HashOf(sc.name)] ELSE sc

SetSchema ==
  /\ host.asset # 0 /\ ~host.complete
  /\ host' = [host EXCEPT !.schema = MapScenes(@, FillHash), !.complete = TRUE]
  /\ UNCHANGED <<fileVars, nBytes, clientVars, frame>>

-----------------------------------------------------------------------------
(* The client. *)

\* Only the parameters of the first scene are laid out.
ParametersOf(s) == IF s.scenes = <<>> THEN <<>> ELSE s.scenes[1].parameters

Key(p) == p.names[3]

Keys(s) == {Key(p) : p \in ToSet(ParametersOf(s))}

Width(p) == CASE p.type \in MatrixTypes -> MatrixSide * MatrixSide
              [] p.type \in NumberTypes -> 1
              [] OTHER -> 0

Place(m, p) == [next |-> m.next + Width(p),
                map  |-> [k \in DOMAIN m.map \cup {Key(p)} |->
                            IF k = Key(p) THEN m.next ELSE m.map[k]]]

OffsetsM(s) ==  \* the map keeps what it had
  FoldLeft(Place, [next |-> 0, map |-> client.param_map], ParametersOf(s)).map

Offsets(s) == FoldLeft(Place, [next |-> 0, map |-> <<>>], ParametersOf(s)).map

Identity == [i \in 1..MatrixSide * MatrixSide |->
               IF (i - 1) % MatrixSide = (i - 1) \div MatrixSide THEN 1 ELSE 0]

Default(p) == CASE p.type \in MatrixTypes -> Identity
                [] p.type \in NumberTypes -> <<OrZero(p.default)>>
                [] OTHER -> <<>>

\* seq with the values in v written over it from offset off on.
Over(seq, off, v) == [i \in DOMAIN seq |->
                        IF i - off \in DOMAIN v THEN v[i - off] ELSE seq[i]]

DefaultsM(s) ==  \* what the resize kept is not filled again
  Over(FlattenSeq([i \in DOMAIN ParametersOf(s) |->
                     Default(ParametersOf(s)[i])]), 0, client.param_values)

Defaults(s) == FlattenSeq([i \in DOMAIN ParametersOf(s) |->
                             Default(ParametersOf(s)[i])])

\* What the agent answers has the channels and the scenes only; when there
\* is no schema the answer is an error in JSON, with status 200 like any
\* other, in which the client finds an empty schema.
AgentAnswer == IF Loadable THEN [Loaded EXCEPT !.head = NoSchema.head]
                           ELSE NoSchema

LoadSchema ==
  LET s == FromJson(AgentAnswer) IN
  /\ client' = [asset |-> file.asset, schema |-> s, param_map |-> Offsets(s),
                param_values |-> Defaults(s),
                assigned |-> [k \in Keys(s) |->
                  Default(CHOOSE p \in ToSet(ParametersOf(s)) : Key(p) = k)]]
  /\ sets' = 0
  /\ UNCHANGED <<fileVars, hostVars, frame>>

\* The application gives a parameter no more values than it has.
SetParameters(p, v) ==
  /\ sets < MaxSets /\ Len(v) <= Width(p)
  /\ LET off == client.param_map[Key(p)] IN
       IF off + Len(v) > Len(client.param_values)
       THEN UNCHANGED client
       ELSE client' = [client EXCEPT !.param_values = Over(@, off, v),
                                     !.assigned[Key(p)] = Over(@, 0, v)]
  /\ sets' = sets + 1
  /\ UNCHANGED <<fileVars, hostVars, frame>>

\* build_and_send: the row of parameters goes with the tick.
Tick ==
  /\ frame' = [asset |-> client.asset, values |-> client.param_values,
               assigned |-> client.assigned]
  /\ UNCHANGED <<fileVars, hostVars, clientVars>>

-----------------------------------------------------------------------------
(* The host again: rs_getFrameParameters. *)

\* Where the host looks for its i-th parameter, and the size of its row.
HostOffset(s, i) ==
  FoldLeft(LAMBDA off, p : off + Width(p), 0, SubSeq(ParametersOf(s), 1, i - 1))

RowSize(s) == HostOffset(s, Len(ParametersOf(s)) + 1)

Unwritten == -2  \* what the host had in its row before

FrameParameters(s) ==
  [i \in 1..RowSize(s) |-> IF frame.values = <<>> THEN 0
                           ELSE IF i <= Len(frame.values)
                                THEN frame.values[i] ELSE Unwritten]

-----------------------------------------------------------------------------
Values(p) == {[i \in 1..n |-> v] : n \in 1..Width(p), v \in NewValues}

EditorNext == \/ \E a \in Asset : SaveOpen(a)
              \/ SaveWrite \/ SaveThrows

HostNext == \/ \E a \in Asset : BuildSchema(a)
            \/ LoadSize \/ LoadNotFound \/ LoadOverflow \/ LoadInto
            \/ SetSchema

ClientNext == \/ LoadSchema \/ Tick
              \/ \E p \in ToSet(ParametersOf(client.schema)) :
                   \E v \in Values(p) : SetParameters(p, v)

Next == EditorNext \/ HostNext \/ ClientNext

Spec == Init /\ [][Next]_vars

-----------------------------------------------------------------------------
(* Properties *)

\* A host's Schema has a default for every parameter, also where the file had
\* none; what was put into its buffer are regions; the client's map and values
\* are those of the schema it has.
TypeOK ==
  /\ file \in [state : {"none", "torn", "whole"}, asset : Asset \cup {0},
               schema : Schemas(Nat \cup {None})]
  /\ editor \in Asset \cup {0} /\ saves \in Nat
  /\ host \in [asset : Asset \cup {0}, schema : Schemas(Nat), size : Nat,
               complete : BOOLEAN, regions : Seq(Regions)]
  /\ nBytes \in Nat /\ sets \in Nat
  /\ client.asset \in Asset \cup {0}
  /\ client.schema \in Schemas(Nat \cup {None})
  /\ client.param_map \in [Keys(client.schema) -> Nat]
  /\ client.param_values \in Seq(Nat)
  /\ client.assigned \in [Keys(client.schema) -> Seq(Nat)]
  /\ frame.asset \in Asset \cup {0} /\ frame.values \in Seq(Nat)

\* What rs_loadSchema writes, when the file may have been replaced since the
\* host asked for its size, lies within the size the host passed, each part
\* aligned as its type asks and no two overlapping (renderstream.hpp:441-592,
\* renderstream.cpp:119-131).
FitsBuffer ==
  \A i \in DOMAIN host.regions :
    LET r == host.regions[i] IN
    /\ EndOf(r) <= host.size
    /\ r.at % r.alignment = 0
    /\ \A j \in 1..i - 1 : EndOf(host.regions[j]) <= r.at

\* A schema that went through the file, a buffer and rs_setSchema and is saved
\* again makes the file the first save made (renderstream.cpp:107-173).
SavedAgainIsSame ==
  host.asset # 0 =>
    ToJson(FromC(host.schema)) = ToJson(FromC(Assets[host.asset]))

\* A client that has the schema the host built or loaded, through the file
\* and the agent, knows the first scene by the hash rs_setSchema gave it, if
\* it gave it one (renderstream.h:419, client.cpp:266-274).
HashesAgree ==
  (/\ host.complete /\ client.asset = host.asset
   /\ host.schema.scenes # <<>>
   /\ host.schema.scenes[1].hash # 0)
  => client.schema.scenes[1].hash = host.schema.scenes[1].hash

\* In the scene that is laid out every parameter has a key of its own, as it
\* is known by its key alone, and a type that the host's header defines.
Addressable(s) ==
  \A i, j \in DOMAIN ParametersOf(s) :
    /\ ParametersOf(s)[i].type \in KnownTypes
    /\ Key(ParametersOf(s)[i]) = Key(ParametersOf(s)[j]) => i = j

\* If the tick was laid out by the host's schema, the host reads of every
\* parameter what the application had set of it when the tick was sent, and
\* the default where it had set nothing (client.cpp:151-210, 290-295,
\* renderstream.cpp:251-273).
HostReadsWhatWasSet ==
  host.asset # 0 /\ host.asset = frame.asset /\ Addressable(Assets[host.asset]) =>
    \A i \in DOMAIN ParametersOf(host.schema) :
      LET p == ParametersOf(host.schema)[i] IN
      \A k \in 1..Width(p) :
        FrameParameters(host.schema)[HostOffset(host.schema, i) + k]
          = frame.assigned[Key(p)][k]
=============================================================================
