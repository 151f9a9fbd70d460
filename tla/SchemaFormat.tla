---------------------------- MODULE SchemaFormat ----------------------------
(***************************************************************************)
(* The forms of a schema (common/renderstream.hpp): what the host has in   *)
(* a C Schema, rs::schema, the JSON file, and the one flat buffer that     *)
(* to_c fills after bytes() has measured it.  The forms share one record   *)
(* and differ in what a conversion does to its fields.  A string is its    *)
(* length, 0 the empty string or the null pointer; of the defaults of a    *)
(* number min, max and step are left out, as are DMX and the flags.        *)
(***************************************************************************)
EXTENDS Integers, SequencesExt

None == -1  \* std::monostate, or a member that JSON does not have

KnownTypes  == 0..6
NumberTypes == {0, 5}   \* number, event
MatrixTypes == {2, 3}   \* pose, transform
TextType    == 4

HasDefault(p) == p.type \in NumberTypes \cup {TextType}

\* The schemas whose parameters have their defaults in the set defaults.
Parameters(defaults) ==
  [names : Seq(Nat), type : Nat, default : defaults, options : Seq(Nat)]

Scenes(defaults) ==
  [name : Nat, hash : Nat, parameters : Seq(Parameters(defaults))]

Schemas(defaults) ==
  [head : Seq(Nat), channels : Seq(Nat), scenes : Seq(Scenes(defaults))]

NoSchema == [head |-> <<0, 0, 0, 0>>, channels |-> <<>>, scenes |-> <<>>]

MapScenes(s, Op(_)) ==
  [s EXCEPT !.scenes = [i \in DOMAIN s.scenes |-> Op(s.scenes[i])]]

MapParameters(s, Op(_)) ==
  LET ps(sc) == [k \in DOMAIN sc.parameters |-> Op(sc.parameters[k])]
  IN  MapScenes(s, LAMBDA sc : [sc EXCEPT !.parameters = ps(sc)])

-----------------------------------------------------------------------------
(* Conversions *)

\* A type that is not known becomes a number, without the defaults of one.
FromC(s) ==
  MapParameters(s, LAMBDA p :
    [p EXCEPT !.type = IF @ \in KnownTypes THEN @ ELSE 0,
              !.default = IF HasDefault(p) THEN @ ELSE None])

OrZero(d) == IF d = None THEN 0 ELSE d

HashOf(name) == 100 + name  \* std::hash, as far as names differ

ToJson(s) ==
  LET hashed(sc) ==
        [sc EXCEPT !.hash = IF @ # 0 THEN @ ELSE HashOf(sc.name)]
      withDefault(p) ==
        [p EXCEPT !.default = IF HasDefault(p) THEN OrZero(@) ELSE None]
  IN  MapParameters(MapScenes(s, hashed), withDefault)

FromJson(j) ==
  MapParameters(j, LAMBDA p :
    [p EXCEPT !.default = IF HasDefault(p) THEN OrZero(@) ELSE None])

ToCM(s) ==  \* the hash is left at what memset made it
  MapScenes(MapParameters(s, LAMBDA p : [p EXCEPT !.default = OrZero(@)]),
            LAMBDA sc : [sc EXCEPT !.hash = 0])

ToC(s) == MapParameters(s, LAMBDA p : [p EXCEPT !.default = OrZero(@)])

-----------------------------------------------------------------------------
(* The flat buffer.  The structs are packed to 4 bytes, pointers are not.   *)

SchemaSize    == 56
SceneSize     == 28
ParameterSize == 68
PointerSize   == 8
PackAlign     == 4

AlignUp(offset, alignment) ==
  ((offset + alignment - 1) \div alignment) * alignment

MeasureStr(off, str) == IF str = 0 THEN off ELSE off + str + 1

MeasureStrs(off, strs) == FoldLeft(MeasureStr, off, strs)

MeasureArray(off, alignment, size, seq) ==
  IF seq = <<>> THEN off ELSE AlignUp(off, alignment) + Len(seq) * size

MeasurePointers(off, strs) ==
  MeasureStrs(MeasureArray(off, PointerSize, PointerSize, strs), strs)

MeasureParameterM(off, p) ==  \* the default of a text is forgotten
  MeasurePointers(MeasureStrs(off, p.names), p.options)

MeasureParameter(off, p) ==
  LET text == IF p.type = TextType THEN <<p.default>> ELSE <<>>
  IN  MeasurePointers(MeasureStrs(off, p.names \o text), p.options)

MeasureScene(off, sc) ==
  FoldLeft(MeasureParameter,
           MeasureArray(MeasureStr(off, sc.name), PackAlign, ParameterSize,
                        sc.parameters),
           sc.parameters)

Bytes(s) ==
  LET head == MeasurePointers(MeasureStrs(SchemaSize, s.head), s.channels)
  IN  FoldLeft(MeasureScene,
               MeasureArray(head, PackAlign, SceneSize, s.scenes), s.scenes)

\* What to_c writes is a sequence of regions; the offset is the last's end.
EndOf(r) == r.at + r.size

Regions == [at : Nat, size : Nat, alignment : {1, PackAlign, PointerSize}]

Put(regions, alignment, size) ==
  LET off == IF regions = <<>> THEN 0 ELSE EndOf(Last(regions))
  IN  Append(regions, [at |-> AlignUp(off, alignment), size |-> size,
                       alignment |-> alignment])

PutStr(regions, str) == IF str = 0 THEN regions ELSE Put(regions, 1, str + 1)

PutArray(regions, alignment, size, seq) ==
  IF seq = <<>> THEN regions ELSE Put(regions, alignment, Len(seq) * size)

PutPointers(regions, strs) ==
  FoldLeft(PutStr, PutArray(regions, PointerSize, PointerSize, strs), strs)

PutParameter(regions, p) ==
  LET named == FoldLeft(PutStr, regions, p.names)
      text  == IF p.type = TextType THEN PutStr(named, p.default) ELSE named
  IN  PutPointers(text, p.options)

PutScene(regions, sc) ==
  FoldLeft(PutParameter,
           PutArray(PutStr(regions, sc.name), PackAlign, ParameterSize,
                    sc.parameters),
           sc.parameters)

Written(s) ==
  LET struct == Put(<<>>, PackAlign, SchemaSize)
      head   == PutPointers(FoldLeft(PutStr, struct, s.head), s.channels)
  IN  FoldLeft(PutScene, PutArray(head, PackAlign, SceneSize, s.scenes),
               s.scenes)
=============================================================================
