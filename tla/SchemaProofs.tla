---------------------------- MODULE SchemaProofs ----------------------------
(***************************************************************************)
(* Proofs about SchemaExchange, for every list of schemas: what was put    *)
(* into the file, the buffer, the client's map and the row.                *)
(*                                                                         *)
(*   - A conversion is known by what it does to one parameter (Read,       *)
(*     Given, Filled) and to one hash (Hashed); two schemas are equal when *)
(*     their names, hashes and parameters are.                             *)
(*   - What is a fold in the model (sizes, regions, offsets, the map, the  *)
(*     row) is taken step by step: an instance of FoldProofs for each      *)
(*     operator, and an induction over the steps.                          *)
(*   - TypeInv, with BufferInv, VersionInv and RowInv beside it, are       *)
(*     inductive; the properties follow from them.                         *)
(***************************************************************************)
EXTENDS SchemaExchange, SequenceTheorems, TLAPS

\* A function on 1..n is a sequence.
LEMMA IsSequence ==
  ASSUME NEW S, NEW n \in Nat, NEW f, f = [k \in 1..n |-> f[k]],
         \A k \in 1..n : f[k] \in S
  PROVE  f \in Seq(S) /\ Len(f) = n
<1>1. f \in [1..n -> S]
  BY Zenon
<1> QED BY <1>1

\* What it is to be a schema, a scene or a parameter, field by field.
LEMMA SchemaFields ==
  ASSUME NEW D, NEW s \in Schemas(D)
  PROVE  /\ s = [head |-> s.head, channels |-> s.channels, scenes |-> s.scenes]
         /\ s.head \in Seq(Nat) /\ s.channels \in Seq(Nat)
         /\ Len(s.scenes) \in Nat /\ DOMAIN s.scenes = 1..Len(s.scenes)
         /\ s.scenes \in Seq(Scenes(D))
         /\ \A i \in DOMAIN s.scenes : s.scenes[i] \in Scenes(D)
BY DEF Schemas

\* What EXCEPT does to a schema and to a scene.
LEMMA SchemaReplaced ==
  ASSUME NEW D, NEW s \in Schemas(D), NEW x
  PROVE  [s EXCEPT !.scenes = x] =
           [head |-> s.head, channels |-> s.channels, scenes |-> x]
<1>1. s = [head |-> s.head, channels |-> s.channels, scenes |-> s.scenes]
  BY DEF Schemas
<1>2. PICK a, b, c : s = [head |-> a, channels |-> b, scenes |-> c]
  BY <1>1
<1>3. s.head = a /\ s.channels = b /\ s.scenes = c
  BY <1>2
<1>4. [[head |-> a, channels |-> b, scenes |-> c] EXCEPT !.scenes = x]
        = [head |-> a, channels |-> b, scenes |-> x]
  OBVIOUS
<1> QED BY <1>2, <1>3, <1>4

LEMMA SceneReplaced ==
  ASSUME NEW D, NEW sc \in Scenes(D), NEW x, NEW y
  PROVE  [sc EXCEPT !.hash = x, !.parameters = y] =
           [name |-> sc.name, hash |-> x, parameters |-> y]
<1>1. sc = [name |-> sc.name, hash |-> sc.hash, parameters |-> sc.parameters]
  BY DEF Scenes
<1>2. PICK a, b, c : sc = [name |-> a, hash |-> b, parameters |-> c]
  BY <1>1
<1>3. sc.name = a
  BY <1>2
<1>4. [[name |-> a, hash |-> b, parameters |-> c] EXCEPT
          !.hash = x, !.parameters = y]
        = [[[name |-> a, hash |-> b, parameters |-> c] EXCEPT !.hash = x]
             EXCEPT !.parameters = y]
  OBVIOUS
<1>5. [[name |-> a, hash |-> b, parameters |-> c] EXCEPT !.hash = x]
        = [name |-> a, hash |-> x, parameters |-> c]
  OBVIOUS
<1>6. [[name |-> a, hash |-> x, parameters |-> c] EXCEPT !.parameters = y]
        = [name |-> a, hash |-> x, parameters |-> y]
  OBVIOUS
<1> QED BY <1>2, <1>3, <1>4, <1>5, <1>6

LEMMA SceneSame ==
  ASSUME NEW D, NEW sc \in Scenes(D), NEW x
  PROVE  /\ [sc EXCEPT !.hash = sc.hash, !.parameters = x] =
              [sc EXCEPT !.parameters = x]
         /\ [sc EXCEPT !.hash = x, !.parameters = sc.parameters] =
              [sc EXCEPT !.hash = x]
         /\ [sc EXCEPT !.hash = sc.hash] = sc
<1>1. sc = [name |-> sc.name, hash |-> sc.hash, parameters |-> sc.parameters]
  BY DEF Scenes
<1>2. PICK a, b, c : sc = [name |-> a, hash |-> b, parameters |-> c]
  BY <1>1
<1>3. sc.name = a /\ sc.hash = b /\ sc.parameters = c
  BY <1>2
<1>4. [[name |-> a, hash |-> b, parameters |-> c] EXCEPT !.hash = x]
        = [name |-> a, hash |-> x, parameters |-> c]
  OBVIOUS
<1>5. [[name |-> a, hash |-> b, parameters |-> c] EXCEPT !.parameters = x]
        = [name |-> a, hash |-> b, parameters |-> x]
  OBVIOUS
<1>6. [[name |-> a, hash |-> b, parameters |-> c] EXCEPT !.hash = b]
        = [name |-> a, hash |-> b, parameters |-> c]
  OBVIOUS
<1> QED BY <1>2, <1>3, <1>4, <1>5, <1>6, SceneReplaced

LEMMA SceneFields ==
  ASSUME NEW D, NEW sc \in Scenes(D)
  PROVE  /\ sc = [name |-> sc.name, hash |-> sc.hash, parameters |-> sc.parameters]
         /\ sc.name \in Nat /\ sc.hash \in Nat
         /\ sc.parameters \in Seq(Parameters(D))
         /\ Len(sc.parameters) \in Nat
         /\ DOMAIN sc.parameters = 1..Len(sc.parameters)
         /\ \A k \in DOMAIN sc.parameters : sc.parameters[k] \in Parameters(D)
BY DEF Scenes

LEMMA ParameterFields ==
  ASSUME NEW D, NEW p \in Parameters(D)
  PROVE  /\ p = [names |-> p.names, type |-> p.type, default |-> p.default,
                 options |-> p.options]
         /\ p.names \in Seq(Nat) /\ p.type \in Nat /\ p.default \in D
         /\ p.options \in Seq(Nat)
BY DEF Parameters

-----------------------------------------------------------------------------
\* The k-th parameter of the i-th scene.
At(s, i, k) == s.scenes[i].parameters[k]

\* t is s but for hashes, types and defaults.
Named(s, t) ==
  /\ t.head = s.head /\ t.channels = s.channels
  /\ DOMAIN t.scenes = DOMAIN s.scenes
  /\ \A i \in DOMAIN s.scenes :
       /\ t.scenes[i].name = s.scenes[i].name
       /\ DOMAIN t.scenes[i].parameters = DOMAIN s.scenes[i].parameters
       /\ \A k \in DOMAIN s.scenes[i].parameters :
            /\ At(t, i, k).names = At(s, i, k).names
            /\ At(t, i, k).options = At(s, i, k).options

SameHashes(s, t) ==
  \A i \in DOMAIN s.scenes : t.scenes[i].hash = s.scenes[i].hash

\* Schemas are equal that differ in nothing.
LEMMA EqualSchemas ==
  ASSUME NEW D, NEW E, NEW s \in Schemas(D), NEW t \in Schemas(E),
         Named(s, t), SameHashes(s, t),
         \A i \in DOMAIN s.scenes : \A k \in DOMAIN s.scenes[i].parameters :
           /\ At(t, i, k).type = At(s, i, k).type
           /\ At(t, i, k).default = At(s, i, k).default
  PROVE  t = s
<1>1. ASSUME NEW i \in DOMAIN s.scenes PROVE t.scenes[i] = s.scenes[i]
  <2>1. s.scenes[i] \in Scenes(D) /\ t.scenes[i] \in Scenes(E)
    BY SchemaFields DEF Named
  <2>2. ASSUME NEW k \in DOMAIN s.scenes[i].parameters
        PROVE  t.scenes[i].parameters[k] = s.scenes[i].parameters[k]
    <3>1. /\ At(s, i, k) \in Parameters(D) /\ At(t, i, k) \in Parameters(E)
      BY <2>1, SceneFields DEF Named, At
    <3>2. /\ At(t, i, k).names = At(s, i, k).names
          /\ At(t, i, k).options = At(s, i, k).options
      BY DEF Named
    <3>3. /\ At(t, i, k).type = At(s, i, k).type
          /\ At(t, i, k).default = At(s, i, k).default
      OBVIOUS
    <3> DEFINE p == At(s, i, k)
               q == At(t, i, k)
    <3>4. /\ p = [names |-> p.names, type |-> p.type, default |-> p.default,
                   options |-> p.options]
          /\ q = [names |-> q.names, type |-> q.type, default |-> q.default,
                   options |-> q.options]
      BY <3>1, ParameterFields
    <3> HIDE DEF p, q
    <3>5. p.names = q.names /\ p.type = q.type /\ p.default = q.default
          /\ p.options = q.options
      BY <3>2, <3>3 DEF p, q
    <3>6. p = q
      BY <3>4, <3>5
    <3> QED BY <3>6 DEF p, q, At
  <2>3. t.scenes[i].parameters = s.scenes[i].parameters
    BY <2>1, <2>2, SceneFields DEF Named
  <2> QED BY <2>1, <2>3, SceneFields DEF Named, SameHashes
<1>2. t.scenes = s.scenes
  BY <1>1, SchemaFields DEF Named
<1>3. /\ s = [head |-> s.head, channels |-> s.channels, scenes |-> s.scenes]
      /\ t = [head |-> t.head, channels |-> t.channels, scenes |-> t.scenes]
  BY SchemaFields
<1>4. t.head = s.head /\ t.channels = s.channels
  BY DEF Named
<1> QED BY <1>2, <1>3, <1>4

\* A map over all scenes and parameters that leaves the names alone.
Rewritten(s, h, f) ==
  [s EXCEPT !.scenes = [i \in DOMAIN s.scenes |->
     [s.scenes[i] EXCEPT
        !.hash = h[i],
        !.parameters = [k \in DOMAIN s.scenes[i].parameters |-> f[i][k]]]]]

LEMMA MappedSchema ==
  ASSUME NEW D, NEW E, NEW s \in Schemas(D), NEW h, NEW f,
         \A i \in DOMAIN s.scenes :
           /\ h[i] \in Nat
           /\ \A k \in DOMAIN s.scenes[i].parameters :
                /\ f[i][k] \in Parameters(E)
                /\ f[i][k].names = At(s, i, k).names
                /\ f[i][k].options = At(s, i, k).options,
         NEW t, t = Rewritten(s, h, f)
  PROVE  /\ t \in Schemas(E) /\ Named(s, t)
         /\ \A i \in DOMAIN s.scenes :
              /\ t.scenes[i].hash = h[i]
              /\ \A k \in DOMAIN s.scenes[i].parameters : At(t, i, k) = f[i][k]
<1> DEFINE row(i) == [k \in DOMAIN s.scenes[i].parameters |-> f[i][k]]
           scene(i) == [name |-> s.scenes[i].name, hash |-> h[i],
                        parameters |-> row(i)]
           scenes == [i \in DOMAIN s.scenes |-> scene(i)]
<1>1. \A i \in DOMAIN s.scenes :
        /\ s.scenes[i] \in Scenes(D)
        /\ s.scenes[i] = [name |-> s.scenes[i].name, hash |-> s.scenes[i].hash,
                          parameters |-> s.scenes[i].parameters]
        /\ s.scenes[i].name \in Nat
        /\ Len(s.scenes[i].parameters) \in Nat
        /\ DOMAIN s.scenes[i].parameters = 1..Len(s.scenes[i].parameters)
  BY SchemaFields, SceneFields
<1>2. t = [head |-> s.head, channels |-> s.channels, scenes |-> scenes]
  <2>1. \A i \in DOMAIN s.scenes :
          scene(i) = [s.scenes[i] EXCEPT !.hash = h[i], !.parameters = row(i)]
    <3>1. TAKE i \in DOMAIN s.scenes
    <3>2. s.scenes[i] \in Scenes(D)
      BY <1>1
    <3> HIDE DEF row
    <3>3. [s.scenes[i] EXCEPT !.hash = h[i], !.parameters = row(i)] =
            [name |-> s.scenes[i].name, hash |-> h[i], parameters |-> row(i)]
      BY <3>2, SceneReplaced
    <3> QED BY <3>3
  <2> HIDE DEF scene
  <2>2. scenes = [i \in DOMAIN s.scenes |->
                [s.scenes[i] EXCEPT !.hash = h[i], !.parameters = row(i)]]
    BY <2>1
  <2> HIDE DEF scenes
  <2>3. t = [s EXCEPT !.scenes = scenes]
    BY <2>2 DEF Rewritten
  <2> QED BY <2>3, SchemaReplaced
<1>3. \A i \in DOMAIN s.scenes : scene(i) \in Scenes(E)
  <2>1. TAKE i \in DOMAIN s.scenes
  <2>2. \A k \in DOMAIN s.scenes[i].parameters : f[i][k] \in Parameters(E)
    OBVIOUS
  <2> DEFINE l == Len(s.scenes[i].parameters)
  <2>3. l \in Nat /\ DOMAIN s.scenes[i].parameters = 1..l
    BY <1>1
  <2>4. row(i) = [k \in 1..l |-> f[i][k]]
    BY <2>3
  <2> HIDE DEF l, row
  <2>5. row(i) \in Seq(Parameters(E))
    <3> DEFINE g == f[i]
               r == row(i)
    <3>1. r = [k \in 1..l |-> g[k]] /\ \A k \in 1..l : g[k] \in Parameters(E)
      BY <2>2, <2>3, <2>4
    <3> HIDE DEF g, r
    <3>2. r = [k \in 1..l |-> r[k]] /\ \A k \in 1..l : r[k] \in Parameters(E)
      BY <3>1
    <3>3. r \in Seq(Parameters(E))
      BY <2>3, <3>2, IsSequence
    <3> QED BY <3>3 DEF r
  <2>6. s.scenes[i].name \in Nat /\ h[i] \in Nat
    BY <1>1
  <2> QED BY <2>5, <2>6 DEF Scenes
<1>4. scenes \in Seq(Scenes(E))
  <2> DEFINE l == Len(s.scenes)
  <2>1. l \in Nat /\ DOMAIN s.scenes = 1..l
    BY SchemaFields
  <2> HIDE DEF scene
  <2>2. scenes = [i \in 1..l |-> scene(i)]
    BY <2>1
  <2> HIDE DEF scenes, l
  <2>3. \A i \in 1..l : scene(i) \in Scenes(E)
    BY <1>3, <2>1
  <2>4. scenes = [i \in 1..l |-> scenes[i]] /\ \A i \in 1..l : scenes[i] \in Scenes(E)
    BY <2>2, <2>3
  <2> HIDE DEF scenes
  <2> QED BY <2>1, <2>4, IsSequence
<1>5. t \in Schemas(E)
  <2> HIDE DEF scenes
  <2> QED BY <1>2, <1>4, SchemaFields DEF Schemas
<1>6. \A i \in DOMAIN s.scenes : t.scenes[i] = scene(i)
  <2> HIDE DEF scene
  <2>1. t.scenes = scenes
    BY ONLY <1>2
  <2> QED BY <2>1
<1>7. ASSUME NEW i \in DOMAIN s.scenes
      PROVE  /\ t.scenes[i].name = s.scenes[i].name
             /\ t.scenes[i].hash = h[i]
             /\ DOMAIN t.scenes[i].parameters = DOMAIN s.scenes[i].parameters
             /\ \A k \in DOMAIN s.scenes[i].parameters : At(t, i, k) = f[i][k]
  <2>1. t.scenes[i] = scene(i)
    BY <1>6
  <2>2. \A k \in DOMAIN s.scenes[i].parameters : row(i)[k] = f[i][k]
    OBVIOUS
  <2>3. DOMAIN row(i) = DOMAIN s.scenes[i].parameters
    OBVIOUS
  <2> DEFINE r == row(i)
  <2>4. t.scenes[i].parameters = r /\ t.scenes[i].name = s.scenes[i].name
        /\ t.scenes[i].hash = h[i]
    BY ONLY <2>1
  <2>5. \A k \in DOMAIN s.scenes[i].parameters : At(t, i, k) = r[k]
    BY <2>4 DEF At
  <2> QED BY <2>2, <2>3, <2>4, <2>5
<1>8. t.head = s.head /\ t.channels = s.channels
      /\ DOMAIN t.scenes = DOMAIN s.scenes
  <2> HIDE DEF scene
  <2> QED BY <1>2
<1>9. ASSUME NEW i \in DOMAIN s.scenes, NEW k \in DOMAIN s.scenes[i].parameters
      PROVE  /\ At(t, i, k).names = At(s, i, k).names
             /\ At(t, i, k).options = At(s, i, k).options
  <2>1. At(t, i, k) = f[i][k]
    BY <1>7
  <2>2. f[i][k].names = At(s, i, k).names /\ f[i][k].options = At(s, i, k).options
    OBVIOUS
  <2> QED BY <2>1, <2>2
<1> HIDE DEF scenes
<1>10. Named(s, t)
  BY <1>7, <1>8, <1>9 DEF Named
<1> QED BY <1>5, <1>7, <1>10

WithHashes(s, h) ==
  [s EXCEPT !.scenes = [i \in DOMAIN s.scenes |->
                          [s.scenes[i] EXCEPT !.hash = h[i]]]]

WithParameters(s, f) ==
  [s EXCEPT !.scenes = [i \in DOMAIN s.scenes |->
     [s.scenes[i] EXCEPT !.parameters =
        [k \in DOMAIN s.scenes[i].parameters |-> f[i][k]]]]]

\* The same for a map over the hashes and for one over the parameters.
LEMMA MappedHashes ==
  ASSUME NEW D, NEW s \in Schemas(D), NEW h,
         \A i \in DOMAIN s.scenes : h[i] \in Nat,
         NEW t, t = WithHashes(s, h)
  PROVE  /\ t \in Schemas(D) /\ Named(s, t)
         /\ \A i \in DOMAIN s.scenes :
              /\ t.scenes[i].hash = h[i]
              /\ \A k \in DOMAIN s.scenes[i].parameters : At(t, i, k) = At(s, i, k)
<1> DEFINE f == [i \in DOMAIN s.scenes |-> s.scenes[i].parameters]
           row(i) == [k \in DOMAIN s.scenes[i].parameters |-> f[i][k]]
<1>1. ASSUME NEW i \in DOMAIN s.scenes
      PROVE  [s.scenes[i] EXCEPT !.hash = h[i], !.parameters = row(i)]
               = [s.scenes[i] EXCEPT !.hash = h[i]]
  <2>1. s.scenes[i] \in Scenes(D)
    BY SchemaFields
  <2>2. row(i) = s.scenes[i].parameters
    <3> DEFINE ps == s.scenes[i].parameters
    <3>1. f[i] = ps
      OBVIOUS
    <3>2. ps \in Seq(Parameters(D))
      BY <2>1, SceneFields
    <3> HIDE DEF ps, f
    <3>3. [k \in DOMAIN ps |-> ps[k]] = ps
      BY <3>2
    <3> QED BY <3>1, <3>3 DEF ps
  <2> HIDE DEF row
  <2>3. [s.scenes[i] EXCEPT !.hash = h[i], !.parameters = s.scenes[i].parameters]
          = [s.scenes[i] EXCEPT !.hash = h[i]]
    BY <2>1, SceneSame
  <2> QED BY <2>2, <2>3
<1>2. t = Rewritten(s, h, f)
  <2> HIDE DEF row
  <2>1. t = [s EXCEPT !.scenes = [i \in DOMAIN s.scenes |->
             [s.scenes[i] EXCEPT !.hash = h[i], !.parameters = row(i)]]]
    BY <1>1 DEF WithHashes
  <2> QED BY <2>1 DEF row, Rewritten
<1>3. ASSUME NEW i \in DOMAIN s.scenes, NEW k \in DOMAIN s.scenes[i].parameters
      PROVE  f[i][k] = At(s, i, k) /\ f[i][k] \in Parameters(D)
  <2>1. f[i][k] = At(s, i, k)
    BY DEF At
  <2>2. s.scenes[i] \in Scenes(D)
    BY SchemaFields
  <2>3. At(s, i, k) \in Parameters(D)
    BY <2>2, SceneFields DEF At
  <2> QED BY <2>1, <2>3
<1> HIDE DEF f
<1>5. \A i \in DOMAIN s.scenes :
        /\ h[i] \in Nat
        /\ \A k \in DOMAIN s.scenes[i].parameters :
             /\ f[i][k] \in Parameters(D)
             /\ f[i][k].names = At(s, i, k).names
             /\ f[i][k].options = At(s, i, k).options
  BY <1>3
<1>4. /\ t \in Schemas(D) /\ Named(s, t)
      /\ \A i \in DOMAIN s.scenes :
           /\ t.scenes[i].hash = h[i]
           /\ \A k \in DOMAIN s.scenes[i].parameters : At(t, i, k) = f[i][k]
  BY <1>2, <1>5, MappedSchema
<1> QED BY <1>3, <1>4

LEMMA MappedParameters ==
  ASSUME NEW D, NEW s \in Schemas(D), NEW f,
         \A i \in DOMAIN s.scenes : \A k \in DOMAIN s.scenes[i].parameters :
           /\ f[i][k] \in Parameters(D)
           /\ f[i][k].names = At(s, i, k).names
           /\ f[i][k].options = At(s, i, k).options,
         NEW t, t = WithParameters(s, f)
  PROVE  /\ t \in Schemas(D) /\ Named(s, t) /\ SameHashes(s, t)
         /\ \A i \in DOMAIN s.scenes :
              \A k \in DOMAIN s.scenes[i].parameters : At(t, i, k) = f[i][k]
<1> DEFINE h == [i \in DOMAIN s.scenes |-> s.scenes[i].hash]
           row(i) == [k \in DOMAIN s.scenes[i].parameters |-> f[i][k]]
<1>1. ASSUME NEW i \in DOMAIN s.scenes
      PROVE  /\ h[i] = s.scenes[i].hash /\ h[i] \in Nat
             /\ [s.scenes[i] EXCEPT !.hash = h[i], !.parameters = row(i)]
                  = [s.scenes[i] EXCEPT !.parameters = row(i)]
  <2>1. s.scenes[i] \in Scenes(D)
    BY SchemaFields
  <2>2. h[i] = s.scenes[i].hash /\ h[i] \in Nat
    BY <2>1, SceneFields
  <2> HIDE DEF row, h
  <2>3. [s.scenes[i] EXCEPT !.hash = s.scenes[i].hash, !.parameters = row(i)]
          = [s.scenes[i] EXCEPT !.parameters = row(i)]
    BY <2>1, SceneSame
  <2> QED BY <2>2, <2>3
<1> HIDE DEF h
<1>2. t = Rewritten(s, h, f)
  <2> HIDE DEF row
  <2>1. t = [s EXCEPT !.scenes = [i \in DOMAIN s.scenes |->
             [s.scenes[i] EXCEPT !.parameters = row(i)]]]
    BY DEF row, WithParameters
  <2>2. t = [s EXCEPT !.scenes = [i \in DOMAIN s.scenes |->
             [s.scenes[i] EXCEPT !.hash = h[i], !.parameters = row(i)]]]
    BY <1>1, <2>1
  <2> QED BY <2>2 DEF row, Rewritten
<1>3. \A i \in DOMAIN s.scenes :
        /\ h[i] \in Nat
        /\ \A k \in DOMAIN s.scenes[i].parameters :
             /\ f[i][k] \in Parameters(D)
             /\ f[i][k].names = At(s, i, k).names
             /\ f[i][k].options = At(s, i, k).options
  BY <1>1
<1>4. /\ t \in Schemas(D) /\ Named(s, t)
      /\ \A i \in DOMAIN s.scenes :
           /\ t.scenes[i].hash = h[i]
           /\ \A k \in DOMAIN s.scenes[i].parameters : At(t, i, k) = f[i][k]
  BY <1>2, <1>3, MappedSchema
<1> QED BY <1>1, <1>4 DEF SameHashes

-----------------------------------------------------------------------------
(* The conversions. *)

\* What a conversion does to one parameter and to one hash.
Optional == Nat \cup {None}

TypeOf(p) == IF p.type \in KnownTypes THEN p.type ELSE 0

Read(p) == [p EXCEPT !.type = TypeOf(p),
                     !.default = IF HasDefault(p) THEN p.default ELSE None]

Given(p) ==
  [p EXCEPT !.default = IF HasDefault(p) THEN OrZero(p.default) ELSE None]

Filled(p) == [p EXCEPT !.default = OrZero(p.default)]

Hashed(sc) == IF sc.hash # 0 THEN sc.hash ELSE HashOf(sc.name)

\* What EXCEPT does to a parameter.
LEMMA ParameterReplaced ==
  ASSUME NEW D, NEW p \in Parameters(D), NEW x, NEW y
  PROVE  /\ [p EXCEPT !.default = y] =
              [names |-> p.names, type |-> p.type, default |-> y,
               options |-> p.options]
         /\ [p EXCEPT !.type = x, !.default = y] =
              [names |-> p.names, type |-> x, default |-> y,
               options |-> p.options]
<1>1. p = [names |-> p.names, type |-> p.type, default |-> p.default,
           options |-> p.options]
  BY DEF Parameters
<1>2. PICK a, b, c, d :
        p = [names |-> a, type |-> b, default |-> c, options |-> d]
  BY <1>1
<1>3. p.names = a /\ p.type = b /\ p.default = c /\ p.options = d
  BY <1>2
<1>4. \A z : [[names |-> a, type |-> z, default |-> c, options |-> d]
                EXCEPT !.default = y]
              = [names |-> a, type |-> z, default |-> y, options |-> d]
  OBVIOUS
<1>5. [[names |-> a, type |-> b, default |-> c, options |-> d]
         EXCEPT !.type = x, !.default = y]
        = [[[names |-> a, type |-> b, default |-> c, options |-> d]
              EXCEPT !.type = x] EXCEPT !.default = y]
  OBVIOUS
<1>6. [[names |-> a, type |-> b, default |-> c, options |-> d]
         EXCEPT !.type = x]
        = [names |-> a, type |-> x, default |-> c, options |-> d]
  OBVIOUS
<1> QED BY <1>2, <1>3, <1>4, <1>5, <1>6

LEMMA ParameterConverted ==
  ASSUME NEW p
  PROVE  /\ p \in Parameters(Nat) =>
              /\ Read(p) \in Parameters(Optional)
              /\ Read(p).names = p.names /\ Read(p).options = p.options
              /\ Read(p).type = TypeOf(p)
              /\ Read(p).default = IF HasDefault(p) THEN p.default ELSE None
         /\ p \in Parameters(Optional) =>
              /\ Given(p) \in Parameters(Optional)
              /\ Given(p).names = p.names /\ Given(p).options = p.options
              /\ Given(p).type = p.type
              /\ Given(p).default =
                   IF HasDefault(p) THEN OrZero(p.default) ELSE None
              /\ Filled(p) \in Parameters(Nat)
              /\ Filled(p).names = p.names /\ Filled(p).options = p.options
              /\ Filled(p).type = p.type
              /\ Filled(p).default = OrZero(p.default)
<1>1. ASSUME p \in Parameters(Nat)
      PROVE  /\ Read(p) \in Parameters(Optional)
             /\ Read(p).names = p.names /\ Read(p).options = p.options
             /\ Read(p).type = TypeOf(p)
             /\ Read(p).default = IF HasDefault(p) THEN p.default ELSE None
  <2> DEFINE d == IF HasDefault(p) THEN p.default ELSE None
  <2>1. Read(p) = [names |-> p.names, type |-> TypeOf(p), default |-> d,
                   options |-> p.options]
    BY <1>1, ParameterReplaced DEF Read
  <2>2. TypeOf(p) \in Nat /\ d \in Optional
    BY <1>1, ParameterFields DEF TypeOf, Optional
  <2> HIDE DEF d
  <2>3. Read(p) \in Parameters(Optional)
    BY <1>1, <2>1, <2>2, ParameterFields DEF Parameters
  <2> QED BY <2>1, <2>3 DEF d
<1>2. ASSUME p \in Parameters(Optional)
      PROVE  /\ Given(p) \in Parameters(Optional)
             /\ Given(p).names = p.names /\ Given(p).options = p.options
             /\ Given(p).type = p.type
             /\ Given(p).default =
                  IF HasDefault(p) THEN OrZero(p.default) ELSE None
  <2> DEFINE d == IF HasDefault(p) THEN OrZero(p.default) ELSE None
  <2>1. Given(p) = [names |-> p.names, type |-> p.type, default |-> d,
                    options |-> p.options]
    BY <1>2, ParameterReplaced DEF Given
  <2>2. d \in Optional
    BY <1>2, ParameterFields DEF OrZero, Optional
  <2> HIDE DEF d
  <2>3. Given(p) \in Parameters(Optional)
    BY <1>2, <2>1, <2>2, ParameterFields DEF Parameters
  <2> QED BY <2>1, <2>3 DEF d
<1>3. ASSUME p \in Parameters(Optional)
      PROVE  /\ Filled(p) \in Parameters(Nat)
             /\ Filled(p).names = p.names /\ Filled(p).options = p.options
             /\ Filled(p).type = p.type
             /\ Filled(p).default = OrZero(p.default)
  <2>1. Filled(p) = [names |-> p.names, type |-> p.type,
                     default |-> OrZero(p.default), options |-> p.options]
    BY <1>3, ParameterReplaced DEF Filled
  <2>2. OrZero(p.default) \in Nat
    BY <1>3, ParameterFields DEF OrZero, Optional
  <2>3. Filled(p) \in Parameters(Nat)
    BY <1>3, <2>1, <2>2, ParameterFields DEF Parameters
  <2> QED BY <2>1, <2>3
<1> QED BY <1>1, <1>2, <1>3

LEMMA AtType ==
  ASSUME NEW D, NEW s \in Schemas(D), NEW i \in DOMAIN s.scenes,
         NEW k \in DOMAIN s.scenes[i].parameters
  PROVE  At(s, i, k) \in Parameters(D)
<1>1. s.scenes[i] \in Scenes(D)
  BY SchemaFields
<1> QED BY <1>1, SceneFields DEF At

\* A schema is as typed as its defaults are.
LEMMA Retyped ==
  ASSUME NEW D, NEW E, NEW s \in Schemas(D),
         \A i \in DOMAIN s.scenes : \A k \in DOMAIN s.scenes[i].parameters :
           At(s, i, k).default \in E
  PROVE  s \in Schemas(E)
<1>1. ASSUME NEW i \in DOMAIN s.scenes PROVE s.scenes[i] \in Scenes(E)
  <2> DEFINE sc == s.scenes[i]
             ps == sc.parameters
             l == Len(ps)
  <2>1. sc \in Scenes(D)
    BY SchemaFields
  <2>2. /\ sc = [name |-> sc.name, hash |-> sc.hash, parameters |-> ps]
        /\ sc.name \in Nat /\ sc.hash \in Nat
    BY <2>1, SceneFields
  <2>3. l \in Nat /\ DOMAIN ps = 1..l /\ ps \in Seq(Parameters(D))
    BY <2>1, SceneFields
  <2>4. ASSUME NEW k \in 1..l PROVE ps[k] \in Parameters(E)
    <3>1. ps[k].default \in E
      BY <2>3 DEF At
    <3>2. ps[k] \in Parameters(D)
      BY <2>3
    <3> DEFINE p == ps[k]
    <3> HIDE DEF p
    <3>3. /\ p = [names |-> p.names, type |-> p.type, default |-> p.default,
                   options |-> p.options]
          /\ p.names \in Seq(Nat) /\ p.type \in Nat /\ p.default \in E
          /\ p.options \in Seq(Nat)
      BY <3>1, <3>2, ParameterFields DEF p
    <3>4. p \in Parameters(E)
      BY <3>3 DEF Parameters
    <3> QED BY <3>4 DEF p
  <2> HIDE DEF l, ps
  <2>5. ps = [k \in 1..l |-> ps[k]]
    BY <2>3
  <2>6. ps \in Seq(Parameters(E))
    BY <2>3, <2>4, <2>5, IsSequence
  <2> HIDE DEF sc
  <2>7. sc \in Scenes(E)
    BY <2>2, <2>6 DEF Scenes
  <2> QED BY <2>7 DEF sc
<1> DEFINE scenes == s.scenes
           l == Len(scenes)
<1>2. l \in Nat /\ DOMAIN scenes = 1..l /\ scenes \in Seq(Scenes(D))
  BY SchemaFields
<1>3. \A i \in 1..l : scenes[i] \in Scenes(E)
  BY <1>1, <1>2
<1>4. s = [head |-> s.head, channels |-> s.channels, scenes |-> scenes]
      /\ s.head \in Seq(Nat) /\ s.channels \in Seq(Nat)
  BY SchemaFields
<1> HIDE DEF l, scenes
<1>5. scenes = [i \in 1..l |-> scenes[i]]
  BY <1>2
<1>6. scenes \in Seq(Scenes(E))
  BY <1>2, <1>3, <1>5, IsSequence
<1> QED BY <1>4, <1>6 DEF Schemas

LEMMA PlainIsGiven ==
  /\ Schemas(Nat) \subseteq Schemas(Optional)
  /\ Parameters(Nat) \subseteq Parameters(Optional)
<1>1. ASSUME NEW s \in Schemas(Nat) PROVE s \in Schemas(Optional)
  <2>1. \A i \in DOMAIN s.scenes : \A k \in DOMAIN s.scenes[i].parameters :
          At(s, i, k).default \in Optional
    BY AtType, ParameterFields DEF Optional
  <2> QED BY <2>1, Retyped
<1>2. Parameters(Nat) \subseteq Parameters(Optional)
  BY DEF Parameters, Optional
<1> QED BY <1>1, <1>2

\* Each conversion of SchemaFormat, and rs_setSchema, parameter by parameter.
LEMMA FromCFields ==
  ASSUME NEW s \in Schemas(Nat)
  PROVE  /\ FromC(s) \in Schemas(Optional)
         /\ Named(s, FromC(s)) /\ SameHashes(s, FromC(s))
         /\ \A i \in DOMAIN s.scenes :
              \A k \in DOMAIN s.scenes[i].parameters :
                At(FromC(s), i, k) = Read(At(s, i, k))
<1> DEFINE f == [i \in DOMAIN s.scenes |->
                  [k \in DOMAIN s.scenes[i].parameters |-> Read(At(s, i, k))]]
<1>1. FromC(s) = [s EXCEPT !.scenes = [i \in DOMAIN s.scenes |->
             [s.scenes[i] EXCEPT !.parameters =
               [k \in DOMAIN s.scenes[i].parameters |-> Read(At(s, i, k))]]]]
  BY DEF FromC, MapParameters, MapScenes, At, TypeOf, Read
<1>2. \A i \in DOMAIN s.scenes :
        [k \in DOMAIN s.scenes[i].parameters |-> Read(At(s, i, k))] =
        [k \in DOMAIN s.scenes[i].parameters |-> f[i][k]]
  OBVIOUS
<1>3. \A i \in DOMAIN s.scenes : \A k \in DOMAIN s.scenes[i].parameters :
        f[i][k] = Read(At(s, i, k))
  OBVIOUS
<1> HIDE DEF f
<1>7. s \in Schemas(Optional)
  BY PlainIsGiven
<1>4. \A i \in DOMAIN s.scenes : \A k \in DOMAIN s.scenes[i].parameters :
        /\ f[i][k] \in Parameters(Optional)
        /\ f[i][k].names = At(s, i, k).names
        /\ f[i][k].options = At(s, i, k).options
  BY <1>3, AtType, ParameterConverted
<1>5. FromC(s) = WithParameters(s, f)
  BY <1>1, <1>2 DEF WithParameters
<1>6. /\ FromC(s) \in Schemas(Optional) /\ Named(s, FromC(s))
      /\ SameHashes(s, FromC(s))
      /\ \A i \in DOMAIN s.scenes :
           \A k \in DOMAIN s.scenes[i].parameters : At(FromC(s), i, k) = f[i][k]
  BY <1>4, <1>5, <1>7, MappedParameters
<1> QED BY <1>3, <1>6

LEMMA FromJsonFields ==
  ASSUME NEW s \in Schemas(Optional)
  PROVE  /\ FromJson(s) \in Schemas(Optional)
         /\ Named(s, FromJson(s)) /\ SameHashes(s, FromJson(s))
         /\ \A i \in DOMAIN s.scenes :
              \A k \in DOMAIN s.scenes[i].parameters :
                At(FromJson(s), i, k) = Given(At(s, i, k))
<1> DEFINE f == [i \in DOMAIN s.scenes |->
                  [k \in DOMAIN s.scenes[i].parameters |-> Given(At(s, i, k))]]
<1>1. FromJson(s) = [s EXCEPT !.scenes = [i \in DOMAIN s.scenes |->
             [s.scenes[i] EXCEPT !.parameters =
               [k \in DOMAIN s.scenes[i].parameters |-> Given(At(s, i, k))]]]]
  BY DEF FromJson, MapParameters, MapScenes, At, Given
<1>2. \A i \in DOMAIN s.scenes :
        [k \in DOMAIN s.scenes[i].parameters |-> Given(At(s, i, k))] =
        [k \in DOMAIN s.scenes[i].parameters |-> f[i][k]]
  OBVIOUS
<1>3. \A i \in DOMAIN s.scenes : \A k \in DOMAIN s.scenes[i].parameters :
        f[i][k] = Given(At(s, i, k))
  OBVIOUS
<1> HIDE DEF f
<1>4. \A i \in DOMAIN s.scenes : \A k \in DOMAIN s.scenes[i].parameters :
        /\ f[i][k] \in Parameters(Optional)
        /\ f[i][k].names = At(s, i, k).names
        /\ f[i][k].options = At(s, i, k).options
  BY <1>3, AtType, ParameterConverted
<1>5. FromJson(s) = WithParameters(s, f)
  BY <1>1, <1>2 DEF WithParameters
<1>6. /\ FromJson(s) \in Schemas(Optional) /\ Named(s, FromJson(s))
      /\ SameHashes(s, FromJson(s))
      /\ \A i \in DOMAIN s.scenes :
           \A k \in DOMAIN s.scenes[i].parameters : At(FromJson(s), i, k) = f[i][k]
  BY <1>4, <1>5, MappedParameters
<1> QED BY <1>3, <1>6

LEMMA ToCFields ==
  ASSUME NEW s \in Schemas(Optional)
  PROVE  /\ ToC(s) \in Schemas(Nat)
         /\ Named(s, ToC(s)) /\ SameHashes(s, ToC(s))
         /\ \A i \in DOMAIN s.scenes :
              \A k \in DOMAIN s.scenes[i].parameters :
                At(ToC(s), i, k) = Filled(At(s, i, k))
<1> DEFINE f == [i \in DOMAIN s.scenes |->
                  [k \in DOMAIN s.scenes[i].parameters |-> Filled(At(s, i, k))]]
<1>1. ToC(s) = [s EXCEPT !.scenes = [i \in DOMAIN s.scenes |->
             [s.scenes[i] EXCEPT !.parameters =
               [k \in DOMAIN s.scenes[i].parameters |-> Filled(At(s, i, k))]]]]
  BY DEF ToC, MapParameters, MapScenes, At, Filled
<1>2. \A i \in DOMAIN s.scenes :
        [k \in DOMAIN s.scenes[i].parameters |-> Filled(At(s, i, k))] =
        [k \in DOMAIN s.scenes[i].parameters |-> f[i][k]]
  OBVIOUS
<1>3. \A i \in DOMAIN s.scenes : \A k \in DOMAIN s.scenes[i].parameters :
        f[i][k] = Filled(At(s, i, k))
  OBVIOUS
<1> HIDE DEF f
<1>4. \A i \in DOMAIN s.scenes : \A k \in DOMAIN s.scenes[i].parameters :
        /\ f[i][k] \in Parameters(Optional)
        /\ f[i][k].names = At(s, i, k).names
        /\ f[i][k].options = At(s, i, k).options
  <2>1. TAKE i \in DOMAIN s.scenes
  <2>2. TAKE k \in DOMAIN s.scenes[i].parameters
  <2>3. Filled(At(s, i, k)) \in Parameters(Optional)
    BY AtType, ParameterConverted, PlainIsGiven
  <2> QED BY <1>3, <2>3, AtType, ParameterConverted
<1>5. ToC(s) = WithParameters(s, f)
  BY <1>1, <1>2 DEF WithParameters
<1>6. /\ ToC(s) \in Schemas(Optional) /\ Named(s, ToC(s))
      /\ SameHashes(s, ToC(s))
      /\ \A i \in DOMAIN s.scenes :
           \A k \in DOMAIN s.scenes[i].parameters : At(ToC(s), i, k) = f[i][k]
  BY <1>4, <1>5, MappedParameters
<1>7. \A i \in DOMAIN s.scenes : \A k \in DOMAIN s.scenes[i].parameters :
        At(ToC(s), i, k).default \in Nat
  BY <1>3, <1>6, AtType, ParameterConverted, ParameterFields
<1>8. ToC(s) \in Schemas(Nat)
  BY <1>6, <1>7, Retyped DEF Named
<1> QED BY <1>3, <1>6, <1>8

LEMMA ToJsonFields ==
  ASSUME NEW s \in Schemas(Optional)
  PROVE  /\ ToJson(s) \in Schemas(Optional) /\ Named(s, ToJson(s))
         /\ \A i \in DOMAIN s.scenes :
              /\ ToJson(s).scenes[i].hash = Hashed(s.scenes[i])
              /\ \A k \in DOMAIN s.scenes[i].parameters :
                   At(ToJson(s), i, k) = Given(At(s, i, k))
<1> DEFINE h == [i \in DOMAIN s.scenes |-> Hashed(s.scenes[i])]
           t == WithHashes(s, h)
<1>1. ToJson(s) = FromJson(t)
  <2> DEFINE hashed == [i \in DOMAIN s.scenes |->
                          [s.scenes[i] EXCEPT !.hash =
                             IF @ # 0 THEN @ ELSE HashOf(s.scenes[i].name)]]
  <2>1. hashed = [i \in DOMAIN s.scenes |-> [s.scenes[i] EXCEPT !.hash = h[i]]]
    BY DEF Hashed
  <2>2. t = [s EXCEPT !.scenes = hashed]
    BY <2>1 DEF WithHashes
  <2> HIDE DEF h, hashed
  <2>3. FromJson(t) = FromJson([s EXCEPT !.scenes = hashed])
    BY <2>2
  <2>4. ToJson(s) = FromJson([s EXCEPT !.scenes = hashed])
    BY DEF ToJson, FromJson, MapParameters, MapScenes, hashed
  <2> QED BY <2>3, <2>4
<1>2. \A i \in DOMAIN s.scenes : h[i] = Hashed(s.scenes[i]) /\ h[i] \in Nat
  <2>1. TAKE i \in DOMAIN s.scenes
  <2>2. s.scenes[i] \in Scenes(Optional)
    BY SchemaFields
  <2>3. Hashed(s.scenes[i]) \in Nat
    BY <2>2, SceneFields DEF Hashed, HashOf
  <2> QED BY <2>3
<1> HIDE DEF h
<1>3. /\ t \in Schemas(Optional) /\ Named(s, t)
      /\ \A i \in DOMAIN s.scenes :
           /\ t.scenes[i].hash = h[i]
           /\ \A k \in DOMAIN s.scenes[i].parameters : At(t, i, k) = At(s, i, k)
  BY <1>2, MappedHashes
<1> HIDE DEF t
<1>4. /\ FromJson(t) \in Schemas(Optional)
      /\ Named(t, FromJson(t)) /\ SameHashes(t, FromJson(t))
      /\ \A i \in DOMAIN t.scenes :
           \A k \in DOMAIN t.scenes[i].parameters :
             At(FromJson(t), i, k) = Given(At(t, i, k))
  BY <1>3, FromJsonFields
<1>5. Named(s, FromJson(t))
  BY <1>3, <1>4 DEF Named
<1>6. ASSUME NEW i \in DOMAIN s.scenes
      PROVE  /\ FromJson(t).scenes[i].hash = Hashed(s.scenes[i])
             /\ \A k \in DOMAIN s.scenes[i].parameters :
                  At(FromJson(t), i, k) = Given(At(s, i, k))
  BY <1>2, <1>3, <1>4 DEF Named, SameHashes
<1> QED BY <1>1, <1>4, <1>5, <1>6

LEMMA FillHashFields ==
  ASSUME NEW D, NEW s \in Schemas(D)
  PROVE  /\ MapScenes(s, FillHash) \in Schemas(D)
         /\ Named(s, MapScenes(s, FillHash))
         /\ \A i \in DOMAIN s.scenes :
              /\ MapScenes(s, FillHash).scenes[i].hash =
                   IF s.scenes[i].name # 0 THEN Hashed(s.scenes[i])
                                           ELSE s.scenes[i].hash
              /\ \A k \in DOMAIN s.scenes[i].parameters :
                   At(MapScenes(s, FillHash), i, k) = At(s, i, k)
<1> DEFINE h == [i \in DOMAIN s.scenes |->
                  IF s.scenes[i].name # 0 THEN Hashed(s.scenes[i])
                                          ELSE s.scenes[i].hash]
           t == MapScenes(s, FillHash)
<1>1. ASSUME NEW i \in DOMAIN s.scenes
      PROVE  /\ h[i] = IF s.scenes[i].name # 0 THEN Hashed(s.scenes[i])
                                              ELSE s.scenes[i].hash
             /\ h[i] \in Nat
             /\ FillHash(s.scenes[i]) = [s.scenes[i] EXCEPT !.hash = h[i]]
  <2> DEFINE sc == s.scenes[i]
  <2>1. sc \in Scenes(D)
    BY SchemaFields
  <2>2. h[i] = IF sc.name # 0 THEN Hashed(sc) ELSE sc.hash
    OBVIOUS
  <2> HIDE DEF sc, h
  <2>3. h[i] \in Nat
    BY <2>1, <2>2, SceneFields DEF Hashed, HashOf
  <2>4. [sc EXCEPT !.hash = sc.hash] = sc
    BY <2>1, SceneSame
  <2>5. FillHash(sc) = [sc EXCEPT !.hash = h[i]]
    <3>1. CASE sc.hash = 0 /\ sc.name # 0
      BY <2>2, <3>1 DEF FillHash, Hashed
    <3>2. CASE ~(sc.hash = 0 /\ sc.name # 0)
      <4>1. h[i] = sc.hash
        BY <2>2, <3>2 DEF Hashed
      <4> QED BY <2>4, <3>2, <4>1 DEF FillHash
    <3> QED BY <3>1, <3>2
  <2> QED BY <2>2, <2>3, <2>5 DEF sc
<1> HIDE DEF h
<1>2. t = WithHashes(s, h)
  <2>1. t = [s EXCEPT !.scenes = [i \in DOMAIN s.scenes |-> FillHash(s.scenes[i])]]
    BY DEF MapScenes
  <2> QED BY <1>1, <2>1 DEF WithHashes
<1>3. \A i \in DOMAIN s.scenes : h[i] \in Nat
  BY <1>1
<1> HIDE DEF t
<1>4. /\ t \in Schemas(D) /\ Named(s, t)
      /\ \A i \in DOMAIN s.scenes :
           /\ t.scenes[i].hash = h[i]
           /\ \A k \in DOMAIN s.scenes[i].parameters : At(t, i, k) = At(s, i, k)
  BY <1>2, <1>3, MappedHashes
<1> QED BY <1>1, <1>4 DEF t
-----------------------------------------------------------------------------
\* What rs_saveSchema makes of a schema in C.
Saved(s) == ToJson(FromC(s))

LEMMA NamedTransitive ==
  ASSUME NEW s, NEW t, NEW u, Named(s, t), Named(t, u)
  PROVE  Named(s, u)
BY DEF Named

LEMMA NamedSymmetric ==
  ASSUME NEW s, NEW t, Named(s, t)
  PROVE  Named(t, s)
BY DEF Named

\* The file has the names of the schema, every hash, and what Given makes of a
\* parameter that was Read.
LEMMA SavedFields ==
  ASSUME NEW s \in Schemas(Nat)
  PROVE  /\ Saved(s) \in Schemas(Optional) /\ Named(s, Saved(s))
         /\ \A i \in DOMAIN s.scenes :
              /\ Saved(s).scenes[i].hash = Hashed(s.scenes[i])
              /\ \A k \in DOMAIN s.scenes[i].parameters :
                   At(Saved(s), i, k) = Given(Read(At(s, i, k)))
<1> DEFINE t == FromC(s)
<1>1. /\ t \in Schemas(Optional) /\ Named(s, t) /\ SameHashes(s, t)
      /\ \A i \in DOMAIN s.scenes : \A k \in DOMAIN s.scenes[i].parameters :
           At(t, i, k) = Read(At(s, i, k))
  BY FromCFields
<1> HIDE DEF t
<1>2. /\ ToJson(t) \in Schemas(Optional) /\ Named(t, ToJson(t))
      /\ \A i \in DOMAIN t.scenes :
           /\ ToJson(t).scenes[i].hash = Hashed(t.scenes[i])
           /\ \A k \in DOMAIN t.scenes[i].parameters :
                At(ToJson(t), i, k) = Given(At(t, i, k))
  BY <1>1, ToJsonFields
<1>3. Named(s, ToJson(t))
  BY <1>1, <1>2, NamedTransitive
<1>4. ASSUME NEW i \in DOMAIN s.scenes
      PROVE  /\ ToJson(t).scenes[i].hash = Hashed(s.scenes[i])
             /\ \A k \in DOMAIN s.scenes[i].parameters :
                  At(ToJson(t), i, k) = Given(Read(At(s, i, k)))
  <2>1. i \in DOMAIN t.scenes
        /\ DOMAIN t.scenes[i].parameters = DOMAIN s.scenes[i].parameters
    BY <1>1 DEF Named
  <2>2. Hashed(t.scenes[i]) = Hashed(s.scenes[i])
    BY <1>1 DEF Hashed, Named, SameHashes
  <2>3. \A k \in DOMAIN s.scenes[i].parameters :
          At(t, i, k) = Read(At(s, i, k))
    BY <1>1
  <2> QED BY <1>2, <2>1, <2>2, <2>3
<1> QED BY <1>2, <1>3, <1>4 DEF t, Saved

\* What rs_setSchema does to a schema is not seen in the file.
LEMMA CompletedSavesSame ==
  ASSUME NEW s \in Schemas(Nat)
  PROVE  Saved(MapScenes(s, FillHash)) = Saved(s)
<1> DEFINE t == MapScenes(s, FillHash)
<1>1. /\ t \in Schemas(Nat) /\ Named(s, t)
      /\ \A i \in DOMAIN s.scenes :
           /\ t.scenes[i].hash =
                IF s.scenes[i].name # 0 THEN Hashed(s.scenes[i])
                                        ELSE s.scenes[i].hash
           /\ \A k \in DOMAIN s.scenes[i].parameters :
                At(t, i, k) = At(s, i, k)
  BY FillHashFields
<1> HIDE DEF t
<1>2. /\ Saved(s) \in Schemas(Optional) /\ Named(s, Saved(s))
      /\ Saved(t) \in Schemas(Optional) /\ Named(t, Saved(t))
  BY <1>1, SavedFields
<1>3. Named(Saved(s), Saved(t))
  BY <1>1, <1>2, NamedTransitive, NamedSymmetric
<1>4. ASSUME NEW i \in DOMAIN s.scenes
      PROVE  /\ Saved(t).scenes[i].hash = Saved(s).scenes[i].hash
             /\ \A k \in DOMAIN s.scenes[i].parameters :
                  At(Saved(t), i, k) = At(Saved(s), i, k)
  <2>1. i \in DOMAIN t.scenes
        /\ DOMAIN t.scenes[i].parameters = DOMAIN s.scenes[i].parameters
        /\ t.scenes[i].name = s.scenes[i].name
    BY <1>1 DEF Named
  <2>2. s.scenes[i].name \in Nat
    BY SchemaFields, SceneFields
  <2>3. Hashed(t.scenes[i]) = Hashed(s.scenes[i])
    BY <1>1, <2>1, <2>2 DEF Hashed, HashOf
  <2> QED BY <1>1, <2>1, <2>3, SavedFields
<1>5. DOMAIN Saved(s).scenes = DOMAIN s.scenes
      /\ \A i \in DOMAIN s.scenes : DOMAIN Saved(s).scenes[i].parameters
                                      = DOMAIN s.scenes[i].parameters
  BY <1>2 DEF Named
<1>6. SameHashes(Saved(s), Saved(t))
  BY <1>4, <1>5 DEF SameHashes
<1>7. \A i \in DOMAIN Saved(s).scenes :
        \A k \in DOMAIN Saved(s).scenes[i].parameters :
           /\ At(Saved(t), i, k).type = At(Saved(s), i, k).type
           /\ At(Saved(t), i, k).default = At(Saved(s), i, k).default
  BY <1>4, <1>5
<1>8. Saved(t) = Saved(s)
  BY <1>2, <1>3, <1>6, <1>7, EqualSchemas
<1> QED BY <1>8 DEF t

\* A parameter that has been through the file does not change there again.
LEMMA ReadTwice ==
  ASSUME NEW p \in Parameters(Nat), NEW q, q = Given(Read(p)),
         NEW r, r = Given(Read(Filled(Given(q))))
  PROVE  r.type = q.type /\ r.default = q.default
<1>1. /\ Read(p) \in Parameters(Optional)
      /\ Read(p).type = TypeOf(p)
      /\ Read(p).default = IF HasDefault(p) THEN p.default ELSE None
  BY ParameterConverted
<1> DEFINE u == Read(p)
<1>2. /\ q \in Parameters(Optional) /\ q.type = u.type
      /\ q.default = IF HasDefault(u) THEN OrZero(u.default) ELSE None
  BY <1>1, ParameterConverted
<1> DEFINE v == Given(q)
<1>3. /\ v \in Parameters(Optional) /\ v.type = q.type
      /\ v.default = IF HasDefault(q) THEN OrZero(q.default) ELSE None
  BY <1>2, ParameterConverted
<1> DEFINE w == Filled(v)
<1>4. w \in Parameters(Nat) /\ w.type = v.type /\ w.default = OrZero(v.default)
  BY <1>3, ParameterConverted
<1> DEFINE x == Read(w)
<1>5. /\ x \in Parameters(Optional) /\ x.type = TypeOf(w)
      /\ x.default = IF HasDefault(w) THEN w.default ELSE None
  BY <1>4, ParameterConverted
<1>6. /\ r.type = x.type
      /\ r.default = IF HasDefault(x) THEN OrZero(x.default) ELSE None
  BY <1>5, ParameterConverted
<1>7. p.type \in Nat /\ p.default \in Nat
  BY ParameterFields
<1> HIDE DEF u, v, w, x
<1>8. u.type = TypeOf(p) /\ u.default = IF HasDefault(p) THEN p.default ELSE None
  BY <1>1 DEF u
<1>9. /\ q.type = TypeOf(p)
      /\ q.type \in KnownTypes
      /\ q.default = IF HasDefault(q) THEN OrZero(u.default) ELSE None
      /\ HasDefault(q) => q.default \in Nat
  BY <1>2, <1>7, <1>8 DEF TypeOf, KnownTypes, HasDefault, OrZero, None
<1>10. /\ w.type = q.type
       /\ HasDefault(q) => w.default = q.default
  BY <1>3, <1>4, <1>9 DEF OrZero, HasDefault, None
<1>11. x.type = q.type /\ x.default = IF HasDefault(q) THEN q.default ELSE None
  BY <1>5, <1>9, <1>10 DEF TypeOf, HasDefault
<1> QED BY <1>6, <1>9, <1>11 DEF OrZero, HasDefault, None

\* What was loaded from the file is saved as it was.
LEMMA LoadedSavesSame ==
  ASSUME NEW s \in Schemas(Nat)
  PROVE  /\ ToC(FromJson(Saved(s))) \in Schemas(Nat)
         /\ Named(s, ToC(FromJson(Saved(s))))
         /\ Saved(ToC(FromJson(Saved(s)))) = Saved(s)
         /\ \A i \in DOMAIN s.scenes : \A k \in DOMAIN s.scenes[i].parameters :
              At(ToC(FromJson(Saved(s))), i, k).type = TypeOf(At(s, i, k))
<1> DEFINE j == Saved(s)
           l == FromJson(j)
           c == ToC(l)
<1>1. /\ j \in Schemas(Optional) /\ Named(s, j)
      /\ \A i \in DOMAIN s.scenes :
           /\ j.scenes[i].hash = Hashed(s.scenes[i])
           /\ \A k \in DOMAIN s.scenes[i].parameters :
                At(j, i, k) = Given(Read(At(s, i, k)))
  BY SavedFields
<1> HIDE DEF j
<1>2. /\ l \in Schemas(Optional) /\ Named(j, l) /\ SameHashes(j, l)
      /\ \A i \in DOMAIN j.scenes : \A k \in DOMAIN j.scenes[i].parameters :
           At(l, i, k) = Given(At(j, i, k))
  BY <1>1, FromJsonFields
<1> HIDE DEF l
<1>3. /\ c \in Schemas(Nat) /\ Named(l, c) /\ SameHashes(l, c)
      /\ \A i \in DOMAIN l.scenes : \A k \in DOMAIN l.scenes[i].parameters :
           At(c, i, k) = Filled(At(l, i, k))
  BY <1>2, ToCFields
<1> HIDE DEF c
<1>4. /\ Saved(c) \in Schemas(Optional) /\ Named(c, Saved(c))
      /\ \A i \in DOMAIN c.scenes :
           /\ Saved(c).scenes[i].hash = Hashed(c.scenes[i])
           /\ \A k \in DOMAIN c.scenes[i].parameters :
                At(Saved(c), i, k) = Given(Read(At(c, i, k)))
  BY <1>3, SavedFields
<1>5. Named(s, c) /\ Named(j, c) /\ Named(j, Saved(c))
  BY <1>1, <1>2, <1>3, <1>4, NamedTransitive, NamedSymmetric
<1>6. /\ DOMAIN j.scenes = DOMAIN s.scenes
      /\ DOMAIN l.scenes = DOMAIN s.scenes
      /\ DOMAIN c.scenes = DOMAIN s.scenes
      /\ \A i \in DOMAIN s.scenes :
           /\ DOMAIN j.scenes[i].parameters = DOMAIN s.scenes[i].parameters
           /\ DOMAIN l.scenes[i].parameters = DOMAIN s.scenes[i].parameters
           /\ DOMAIN c.scenes[i].parameters = DOMAIN s.scenes[i].parameters
  BY <1>1, <1>2, <1>3 DEF Named
<1>7. ASSUME NEW i \in DOMAIN s.scenes
      PROVE  Saved(c).scenes[i].hash = j.scenes[i].hash
  <2>1. c.scenes[i].hash = Hashed(s.scenes[i])
    BY <1>1, <1>2, <1>3, <1>6 DEF SameHashes
  <2>2. s.scenes[i].name \in Nat
    BY SchemaFields, SceneFields
  <2>3. Hashed(s.scenes[i]) # 0
    BY <2>2 DEF Hashed, HashOf
  <2> QED BY <1>1, <1>4, <1>6, <2>1, <2>3 DEF Hashed
<1>8. ASSUME NEW i \in DOMAIN s.scenes, NEW k \in DOMAIN s.scenes[i].parameters
      PROVE  /\ At(Saved(c), i, k).type = At(j, i, k).type
             /\ At(Saved(c), i, k).default = At(j, i, k).default
  <2>1. At(s, i, k) \in Parameters(Nat)
    BY AtType
  <2>2. At(j, i, k) = Given(Read(At(s, i, k)))
    BY <1>1
  <2>3. At(Saved(c), i, k) = Given(Read(Filled(Given(At(j, i, k)))))
    BY <1>2, <1>3, <1>4, <1>6
  <2> QED BY <2>1, <2>2, <2>3, ReadTwice
<1>9. SameHashes(j, Saved(c))
  BY <1>6, <1>7 DEF SameHashes
<1>10. \A i \in DOMAIN j.scenes : \A k \in DOMAIN j.scenes[i].parameters :
           /\ At(Saved(c), i, k).type = At(j, i, k).type
           /\ At(Saved(c), i, k).default = At(j, i, k).default
  BY <1>6, <1>8
<1>11. Saved(c) = j
  BY <1>1, <1>4, <1>5, <1>9, <1>10, EqualSchemas
<1>12. ASSUME NEW i \in DOMAIN s.scenes, NEW k \in DOMAIN s.scenes[i].parameters
       PROVE  At(c, i, k).type = TypeOf(At(s, i, k))
  <2> DEFINE p == At(s, i, k)
             q == Given(Read(p))
  <2>1. p \in Parameters(Nat)
    BY AtType
  <2>2. At(c, i, k) = Filled(Given(q))
    BY <1>1, <1>2, <1>3, <1>6
  <2> HIDE DEF p
  <2>3. Read(p) \in Parameters(Optional) /\ Read(p).type = TypeOf(p)
    BY <2>1, ParameterConverted
  <2>4. q \in Parameters(Optional) /\ q.type = TypeOf(p)
    BY <2>3, ParameterConverted
  <2> HIDE DEF q
  <2>5. Given(q) \in Parameters(Optional) /\ Given(q).type = TypeOf(p)
    BY <2>4, ParameterConverted
  <2>6. Filled(Given(q)).type = TypeOf(p)
    BY <2>5, ParameterConverted
  <2> QED BY <2>2, <2>6 DEF p
<1> QED BY <1>3, <1>5, <1>11, <1>12 DEF c, l, j

-----------------------------------------------------------------------------
(* The buffer: what to_c writes ends where bytes() has said. *)

MeasuredStrs == INSTANCE FoldProofs WITH Op <- MeasureStr
MeasuredParameters == INSTANCE FoldProofs WITH Op <- MeasureParameter
MeasuredScenes == INSTANCE FoldProofs WITH Op <- MeasureScene
PutStrs == INSTANCE FoldProofs WITH Op <- PutStr
PutParameters == INSTANCE FoldProofs WITH Op <- PutParameter
PutScenes == INSTANCE FoldProofs WITH Op <- PutScene

\* FoldLeft of the instances is the FoldLeft of the model.
LEMMA MeasuredStrsFold ==
  \A base, s : FoldLeft(MeasureStr, base, s)
      = MeasuredStrs!FoldLeft(MeasureStr, base, s)
BY Zenon DEF FoldLeft, MapThenFoldSet, Max, MeasuredStrs!FoldLeft,
             MeasuredStrs!MapThenFoldSet, MeasuredStrs!Max

LEMMA MeasuredParametersFold ==
  \A base, s : FoldLeft(MeasureParameter, base, s)
      = MeasuredParameters!FoldLeft(MeasureParameter, base, s)
BY Zenon DEF FoldLeft, MapThenFoldSet, Max, MeasuredParameters!FoldLeft,
             MeasuredParameters!MapThenFoldSet, MeasuredParameters!Max

LEMMA MeasuredScenesFold ==
  \A base, s : FoldLeft(MeasureScene, base, s)
      = MeasuredScenes!FoldLeft(MeasureScene, base, s)
BY Zenon DEF FoldLeft, MapThenFoldSet, Max, MeasuredScenes!FoldLeft,
             MeasuredScenes!MapThenFoldSet, MeasuredScenes!Max

LEMMA PutStrsFold ==
  \A base, s : FoldLeft(PutStr, base, s) = PutStrs!FoldLeft(PutStr, base, s)
BY Zenon DEF FoldLeft, MapThenFoldSet, Max, PutStrs!FoldLeft,
             PutStrs!MapThenFoldSet, PutStrs!Max

LEMMA PutParametersFold ==
  \A base, s : FoldLeft(PutParameter, base, s)
      = PutParameters!FoldLeft(PutParameter, base, s)
BY Zenon DEF FoldLeft, MapThenFoldSet, Max, PutParameters!FoldLeft,
             PutParameters!MapThenFoldSet, PutParameters!Max

LEMMA PutScenesFold ==
  \A base, s : FoldLeft(PutScene, base, s)
      = PutScenes!FoldLeft(PutScene, base, s)
BY Zenon DEF FoldLeft, MapThenFoldSet, Max, PutScenes!FoldLeft,
             PutScenes!MapThenFoldSet, PutScenes!Max

\* What is written lies one after the other, aligned, and ends at off.
Tracks(off, regions) ==
  /\ off \in Nat /\ regions \in Seq(Regions) /\ regions # <<>>
  /\ off >= SchemaSize
  /\ off = EndOf(regions[Len(regions)])
  /\ \A i \in 1..Len(regions) :
       /\ EndOf(regions[i]) <= off
       /\ regions[i].at % regions[i].alignment = 0
       /\ \A j \in 1..i - 1 : EndOf(regions[j]) <= regions[i].at

Alignments == {1, PackAlign, PointerSize}

\* AlignUp goes up, to a multiple of the alignment.
LEMMA AlignedUp ==
  ASSUME NEW off \in Nat, NEW a \in Alignments
  PROVE  /\ AlignUp(off, a) \in Nat /\ AlignUp(off, a) >= off
         /\ AlignUp(off, a) % a = 0
         /\ a = 1 => AlignUp(off, a) = off
<1>1. CASE a = 1
  BY <1>1 DEF AlignUp
<1>2. CASE a = PackAlign
  BY <1>2 DEF AlignUp, PackAlign
<1>3. CASE a = PointerSize
  BY <1>3 DEF AlignUp, PointerSize
<1> QED BY <1>1, <1>2, <1>3 DEF Alignments

\* Put adds a region where the last one ends, as aligned as it has to be; each
\* Measure adds as much as the Put of the same name.
LEMMA TracksPut ==
  ASSUME NEW off, NEW regions, Tracks(off, regions),
         NEW a \in Alignments, NEW size \in Nat
  PROVE  Tracks(AlignUp(off, a) + size, Put(regions, a, size))
<1> DEFINE n == Len(regions)
           at == AlignUp(off, a)
           r == [at |-> at, size |-> size, alignment |-> a]
           more == Append(regions, r)
<1>1. /\ off \in Nat /\ off >= SchemaSize /\ off = EndOf(regions[n])
      /\ regions \in Seq(Regions) /\ regions # <<>>
  BY DEF Tracks
<1>2. \A i \in 1..n :
        /\ EndOf(regions[i]) <= off
        /\ regions[i].at % regions[i].alignment = 0
        /\ \A j \in 1..i - 1 : EndOf(regions[j]) <= regions[i].at
  BY DEF Tracks
<1>3. /\ n \in Nat \ {0} /\ \A i \in 1..n : regions[i] \in Regions
  BY <1>1
<1>4. \A i \in 1..n : EndOf(regions[i]) \in Nat
  BY <1>3 DEF Regions, EndOf
<1>5. at \in Nat /\ at >= off /\ at % a = 0
  BY <1>1, AlignedUp
<1>6. Put(regions, a, size) = more
  BY <1>1 DEF Put, Last
<1> HIDE DEF at
<1>7. r \in Regions /\ EndOf(r) = at + size /\ r.at = at /\ r.alignment = a
  BY <1>5 DEF Regions, EndOf, Alignments
<1> HIDE DEF r
<1>8. /\ more \in Seq(Regions) /\ Len(more) = n + 1 /\ more # <<>>
      /\ more[n + 1] = r /\ \A i \in 1..n : more[i] = regions[i]
  BY <1>1, <1>7
<1> HIDE DEF more, n
<1>9. ASSUME NEW i \in 1..n + 1
      PROVE  /\ EndOf(more[i]) <= at + size
             /\ more[i].at % more[i].alignment = 0
             /\ \A j \in 1..i - 1 : EndOf(more[j]) <= more[i].at
  <2>1. CASE i = n + 1
    <3>1. \A j \in 1..i - 1 : more[j] = regions[j] /\ EndOf(regions[j]) <= off
      BY <1>2, <1>3, <1>8, <2>1
    <3>2. \A j \in 1..i - 1 : EndOf(regions[j]) <= at
      BY <1>1, <1>3, <1>4, <1>5, <2>1, <3>1
    <3> QED BY <1>5, <1>7, <1>8, <2>1, <3>1, <3>2
  <2>2. CASE i \in 1..n
    <3>1. more[i] = regions[i] /\ \A j \in 1..i - 1 : more[j] = regions[j]
      BY <1>3, <1>8, <2>2
    <3>2. EndOf(regions[i]) <= at + size
      BY <1>1, <1>2, <1>4, <1>5, <2>2
    <3> QED BY <1>2, <2>2, <3>1, <3>2
  <2> QED BY <1>3, <2>1, <2>2
<1>10. at + size \in Nat /\ at + size >= SchemaSize
  BY <1>1, <1>5 DEF SchemaSize
<1> QED BY <1>6, <1>7, <1>8, <1>9, <1>10 DEF Tracks, at

LEMMA TracksStr ==
  ASSUME NEW off, NEW regions, Tracks(off, regions), NEW str \in Nat
  PROVE  Tracks(MeasureStr(off, str), PutStr(regions, str))
<1>1. CASE str = 0
  BY <1>1 DEF MeasureStr, PutStr
<1>2. CASE str # 0
  <2>1. off \in Nat /\ 1 \in Alignments /\ str + 1 \in Nat
    BY DEF Tracks, Alignments
  <2>2. Tracks(AlignUp(off, 1) + (str + 1), Put(regions, 1, str + 1))
    BY <2>1, TracksPut
  <2>3. AlignUp(off, 1) = off /\ off + (str + 1) = off + str + 1
    BY <2>1, AlignedUp
  <2> QED BY <1>2, <2>2, <2>3 DEF MeasureStr, PutStr
<1> QED BY <1>1, <1>2

LEMMA TracksArray ==
  ASSUME NEW off, NEW regions, Tracks(off, regions), NEW S, NEW seq \in Seq(S),
         NEW a \in Alignments, NEW size \in Nat
  PROVE  Tracks(MeasureArray(off, a, size, seq), PutArray(regions, a, size, seq))
<1>1. CASE seq = <<>>
  BY <1>1 DEF MeasureArray, PutArray
<1>2. CASE seq # <<>>
  <2>1. Len(seq) * size \in Nat
    OBVIOUS
  <2>2. Tracks(AlignUp(off, a) + Len(seq) * size, Put(regions, a, Len(seq) * size))
    BY <2>1, TracksPut
  <2> QED BY <1>2, <2>2 DEF MeasureArray, PutArray
<1> QED BY <1>1, <1>2

\* The three folds, step by step.
LEMMA TracksStrs ==
  ASSUME NEW off, NEW regions, Tracks(off, regions), NEW seq \in Seq(Nat)
  PROVE  Tracks(FoldLeft(MeasureStr, off, seq), FoldLeft(PutStr, regions, seq))
<1> DEFINE n == Len(seq)
<1>1. n \in Nat /\ DOMAIN seq = 1..n
  OBVIOUS
<1>2. \A k \in 1..n : seq[k] \in Nat
  OBVIOUS
<1> HIDE DEF n
<1>3. PICK m : MeasuredStrs!Steps(m, off, seq, n) /\ m[n]
             = FoldLeft(MeasureStr, off, seq)
  <2>1. \E m : MeasuredStrs!Steps(m, off, seq, n)
               /\ m[n] = MeasuredStrs!FoldLeft(MeasureStr, off, seq)
    BY <1>1, MeasuredStrs!FoldSteps
  <2> QED BY <2>1, MeasuredStrsFold
<1>4. PICK p : PutStrs!Steps(p, regions, seq, n) /\ p[n]
             = FoldLeft(PutStr, regions, seq)
  <2>1. \E p : PutStrs!Steps(p, regions, seq, n)
               /\ p[n] = PutStrs!FoldLeft(PutStr, regions, seq)
    BY <1>1, PutStrs!FoldSteps
  <2> QED BY <2>1, PutStrsFold
<1> DEFINE Reached == {k \in 0..n : Tracks(m[k], p[k])}
<1>5. 0 \in Reached
  BY <1>1, <1>3, <1>4 DEF MeasuredStrs!Steps, PutStrs!Steps
<1>6. ASSUME NEW k \in 1..n, k - 1 \in Reached PROVE k \in Reached
  <2>1. m[k] = MeasureStr(m[k - 1], seq[k]) /\ p[k] = PutStr(p[k - 1], seq[k])
    BY <1>3, <1>4 DEF MeasuredStrs!Steps, PutStrs!Steps
  <2>2. Tracks(m[k - 1], p[k - 1])
    BY <1>6
  <2> DEFINE x == seq[k]
  <2>3. x \in Nat
    BY <1>2
  <2> HIDE DEF x
  <2>4. Tracks(MeasureStr(m[k - 1], x), PutStr(p[k - 1], x))
    BY <2>2, <2>3, TracksStr
  <2>5. k \in 0..n
    BY <1>1
  <2> QED BY <2>1, <2>4, <2>5 DEF x
<1>7. 0 \in Reached /\ \A k \in 1..n : k - 1 \in Reached => k \in Reached
  BY <1>5, <1>6
<1> HIDE DEF Reached
<1>8. \A k \in 0..n : k \in Reached
  BY <1>1, <1>7, MeasuredStrs!UpTo
<1>9. n \in Reached
  BY <1>1, <1>8
<1>10. Tracks(m[n], p[n])
  BY <1>9 DEF Reached
<1> QED BY <1>3, <1>4, <1>10

LEMMA TracksPointers ==
  ASSUME NEW off, NEW regions, Tracks(off, regions), NEW strs \in Seq(Nat)
  PROVE  Tracks(MeasurePointers(off, strs), PutPointers(regions, strs))
<1>1. PointerSize \in Alignments /\ PointerSize \in Nat
  BY DEF Alignments, PointerSize
<1>2. Tracks(MeasureArray(off, PointerSize, PointerSize, strs),
             PutArray(regions, PointerSize, PointerSize, strs))
  BY <1>1, TracksArray
<1> QED BY <1>2, TracksStrs DEF MeasurePointers, MeasureStrs, PutPointers

\* A text has a default, if only the empty one.
TextGiven(p) == p.type = TextType => p.default \in Nat

LEMMA TracksParameter ==
  ASSUME NEW off, NEW regions, Tracks(off, regions),
         NEW p \in Parameters(Optional), TextGiven(p)
  PROVE  Tracks(MeasureParameter(off, p), PutParameter(regions, p))
<1>1. p.names \in Seq(Nat) /\ p.options \in Seq(Nat)
  BY ParameterFields
<1> DEFINE text == IF p.type = TextType THEN <<p.default>> ELSE <<>>
           named == FoldLeft(PutStr, regions, p.names)
           put == IF p.type = TextType THEN PutStr(named, p.default) ELSE named
<1>2. Tracks(FoldLeft(MeasureStr, off, p.names), named)
  BY <1>1, TracksStrs
<1>3. Tracks(MeasureStrs(off, p.names \o text), put)
  <2> HIDE DEF named
  <2>1. CASE p.type = TextType
    <3>1. text = <<p.default>> /\ p.default \in Nat
      BY <2>1 DEF TextGiven
    <3>2. p.names \o text = Append(p.names, p.default)
      <4> DEFINE names == p.names
                 d == p.default
      <4>1. names \in Seq(Nat) /\ d \in Nat /\ text = <<d>>
        BY <1>1, <3>1
      <4> HIDE DEF names, d, text
      <4>2. names \o <<d>> = Append(names, d)
        BY <4>1, AppendIsConcat
      <4> QED BY <4>1, <4>2 DEF names, d
    <3>3. FoldLeft(MeasureStr, off, p.names \o text)
            = MeasureStr(FoldLeft(MeasureStr, off, p.names), p.default)
      <4>1. FoldLeft(MeasureStr, off, Append(p.names, p.default))
              = MeasureStr(FoldLeft(MeasureStr, off, p.names), p.default)
        <5> DEFINE names == p.names
                   d == p.default
        <5>1. names \in Seq(Nat) /\ d \in Nat
          BY <1>1, <3>1
        <5> HIDE DEF names, d
        <5>2. MeasuredStrs!FoldLeft(MeasureStr, off, Append(names, d))
                = MeasureStr(MeasuredStrs!FoldLeft(MeasureStr, off, names), d)
          BY <5>1, MeasuredStrs!FoldAppend
        <5> QED BY <5>2, MeasuredStrsFold DEF names, d
      <4> QED BY <3>2, <4>1
    <3> QED BY <1>2, <2>1, <3>1, <3>3, TracksStr DEF MeasureStrs
  <2>2. CASE p.type # TextType
    <3>1. p.names \o text = p.names
      BY <1>1, <2>2
    <3> QED BY <1>2, <2>2, <3>1 DEF MeasureStrs
  <2> QED BY <2>1, <2>2
<1> HIDE DEF put, text
<1>4. Tracks(MeasurePointers(MeasureStrs(off, p.names \o text), p.options),
             PutPointers(put, p.options))
  BY <1>1, <1>3, TracksPointers
<1> QED BY <1>4 DEF MeasureParameter, PutParameter, put, text

LEMMA TracksParameters ==
  ASSUME NEW off, NEW regions, Tracks(off, regions),
         NEW seq \in Seq(Parameters(Optional)),
         \A k \in DOMAIN seq : TextGiven(seq[k])
  PROVE  Tracks(FoldLeft(MeasureParameter, off, seq),
                FoldLeft(PutParameter, regions, seq))
<1> DEFINE n == Len(seq)
<1>1. n \in Nat /\ DOMAIN seq = 1..n
  OBVIOUS
<1>2. \A k \in 1..n : seq[k] \in Parameters(Optional) /\ TextGiven(seq[k])
  OBVIOUS
<1> HIDE DEF n
<1>3. PICK m : MeasuredParameters!Steps(m, off, seq, n) /\ m[n]
             = FoldLeft(MeasureParameter, off, seq)
  <2>1. \E m : MeasuredParameters!Steps(m, off, seq, n)
               /\ m[n]
                   = MeasuredParameters!FoldLeft(MeasureParameter, off, seq)
    BY <1>1, MeasuredParameters!FoldSteps
  <2> QED BY <2>1, MeasuredParametersFold
<1>4. PICK p : PutParameters!Steps(p, regions, seq, n) /\ p[n]
             = FoldLeft(PutParameter, regions, seq)
  <2>1. \E p : PutParameters!Steps(p, regions, seq, n)
               /\ p[n] = PutParameters!FoldLeft(PutParameter, regions, seq)
    BY <1>1, PutParameters!FoldSteps
  <2> QED BY <2>1, PutParametersFold
<1> DEFINE Reached == {k \in 0..n : Tracks(m[k], p[k])}
<1>5. 0 \in Reached
  BY <1>1, <1>3, <1>4 DEF MeasuredParameters!Steps, PutParameters!Steps
<1>6. ASSUME NEW k \in 1..n, k - 1 \in Reached PROVE k \in Reached
  <2>1. m[k] = MeasureParameter(m[k - 1], seq[k]) /\ p[k]
      = PutParameter(p[k - 1], seq[k])
    BY <1>3, <1>4 DEF MeasuredParameters!Steps, PutParameters!Steps
  <2>2. Tracks(m[k - 1], p[k - 1])
    BY <1>6
  <2> DEFINE x == seq[k]
  <2>3. x \in Parameters(Optional) /\ TextGiven(x)
    BY <1>2
  <2> HIDE DEF x
  <2>4. Tracks(MeasureParameter(m[k - 1], x), PutParameter(p[k - 1], x))
    BY <2>2, <2>3, TracksParameter
  <2>5. k \in 0..n
    BY <1>1
  <2> QED BY <2>1, <2>4, <2>5 DEF x
<1>7. 0 \in Reached /\ \A k \in 1..n : k - 1 \in Reached => k \in Reached
  BY <1>5, <1>6
<1> HIDE DEF Reached
<1>8. \A k \in 0..n : k \in Reached
  BY <1>1, <1>7, MeasuredParameters!UpTo
<1>9. n \in Reached
  BY <1>1, <1>8
<1>10. Tracks(m[n], p[n])
  BY <1>9 DEF Reached
<1> QED BY <1>3, <1>4, <1>10

TextsGiven(sc) == \A k \in DOMAIN sc.parameters : TextGiven(sc.parameters[k])

LEMMA TracksScene ==
  ASSUME NEW off, NEW regions, Tracks(off, regions),
         NEW sc \in Scenes(Optional), TextsGiven(sc)
  PROVE  Tracks(MeasureScene(off, sc), PutScene(regions, sc))
<1>1. sc.name \in Nat /\ sc.parameters \in Seq(Parameters(Optional))
  BY SceneFields
<1>2. Tracks(MeasureStr(off, sc.name), PutStr(regions, sc.name))
  BY <1>1, TracksStr
<1> DEFINE m == MeasureArray(MeasureStr(off, sc.name), PackAlign, ParameterSize,
                             sc.parameters)
           p == PutArray(PutStr(regions, sc.name), PackAlign, ParameterSize,
                         sc.parameters)
<1>3. PackAlign \in Alignments /\ ParameterSize \in Nat
  BY DEF Alignments, ParameterSize
<1>4. Tracks(m, p)
  BY <1>1, <1>2, <1>3, TracksArray
<1> HIDE DEF m, p
<1>5. Tracks(FoldLeft(MeasureParameter, m, sc.parameters),
             FoldLeft(PutParameter, p, sc.parameters))
  BY <1>1, <1>4, TracksParameters DEF TextsGiven
<1> QED BY <1>5 DEF MeasureScene, PutScene, m, p

LEMMA TracksScenes ==
  ASSUME NEW off, NEW regions, Tracks(off, regions),
         NEW seq \in Seq(Scenes(Optional)),
         \A k \in DOMAIN seq : TextsGiven(seq[k])
  PROVE  Tracks(FoldLeft(MeasureScene, off, seq),
                FoldLeft(PutScene, regions, seq))
<1> DEFINE n == Len(seq)
<1>1. n \in Nat /\ DOMAIN seq = 1..n
  OBVIOUS
<1>2. \A k \in 1..n : seq[k] \in Scenes(Optional) /\ TextsGiven(seq[k])
  OBVIOUS
<1> HIDE DEF n
<1>3. PICK m : MeasuredScenes!Steps(m, off, seq, n) /\ m[n]
             = FoldLeft(MeasureScene, off, seq)
  <2>1. \E m : MeasuredScenes!Steps(m, off, seq, n)
               /\ m[n] = MeasuredScenes!FoldLeft(MeasureScene, off, seq)
    BY <1>1, MeasuredScenes!FoldSteps
  <2> QED BY <2>1, MeasuredScenesFold
<1>4. PICK p : PutScenes!Steps(p, regions, seq, n) /\ p[n]
             = FoldLeft(PutScene, regions, seq)
  <2>1. \E p : PutScenes!Steps(p, regions, seq, n)
               /\ p[n] = PutScenes!FoldLeft(PutScene, regions, seq)
    BY <1>1, PutScenes!FoldSteps
  <2> QED BY <2>1, PutScenesFold
<1> DEFINE Reached == {k \in 0..n : Tracks(m[k], p[k])}
<1>5. 0 \in Reached
  BY <1>1, <1>3, <1>4 DEF MeasuredScenes!Steps, PutScenes!Steps
<1>6. ASSUME NEW k \in 1..n, k - 1 \in Reached PROVE k \in Reached
  <2>1. m[k] = MeasureScene(m[k - 1], seq[k]) /\ p[k]
      = PutScene(p[k - 1], seq[k])
    BY <1>3, <1>4 DEF MeasuredScenes!Steps, PutScenes!Steps
  <2>2. Tracks(m[k - 1], p[k - 1])
    BY <1>6
  <2> DEFINE x == seq[k]
  <2>3. x \in Scenes(Optional) /\ TextsGiven(x)
    BY <1>2
  <2> HIDE DEF x
  <2>4. Tracks(MeasureScene(m[k - 1], x), PutScene(p[k - 1], x))
    BY <2>2, <2>3, TracksScene
  <2>5. k \in 0..n
    BY <1>1
  <2> QED BY <2>1, <2>4, <2>5 DEF x
<1>7. 0 \in Reached /\ \A k \in 1..n : k - 1 \in Reached => k \in Reached
  BY <1>5, <1>6
<1> HIDE DEF Reached
<1>8. \A k \in 0..n : k \in Reached
  BY <1>1, <1>7, MeasuredScenes!UpTo
<1>9. n \in Reached
  BY <1>1, <1>8
<1>10. Tracks(m[n], p[n])
  BY <1>9 DEF Reached
<1> QED BY <1>3, <1>4, <1>10

LEMMA TracksStruct ==
  Tracks(SchemaSize, Put(<<>>, PackAlign, SchemaSize))
<1> DEFINE r == [at |-> 0, size |-> SchemaSize, alignment |-> PackAlign]
<1>1. Put(<<>>, PackAlign, SchemaSize) = <<r>>
  BY DEF Put, AlignUp, PackAlign
<1>2. r \in Regions /\ EndOf(r) = SchemaSize /\ r.at % r.alignment = 0
  BY DEF Regions, EndOf, SchemaSize, PackAlign
<1> HIDE DEF r
<1>3. /\ <<r>> \in Seq(Regions) /\ <<r>> # <<>> /\ Len(<<r>>) = 1
      /\ <<r>>[1] = r
  BY <1>2
<1>4. SchemaSize \in Nat /\ SchemaSize >= SchemaSize
  BY DEF SchemaSize
<1>5. Tracks(SchemaSize, <<r>>)
  BY <1>2, <1>3, <1>4 DEF Tracks
<1> QED BY <1>1, <1>5

\* to_c writes as much as bytes() measures.
LEMMA WrittenTracks ==
  ASSUME NEW s \in Schemas(Optional),
         \A i \in DOMAIN s.scenes : TextsGiven(s.scenes[i])
  PROVE  Tracks(Bytes(s), Written(s))
<1> DEFINE struct == Put(<<>>, PackAlign, SchemaSize)
           mhead == MeasurePointers(MeasureStrs(SchemaSize, s.head), s.channels)
           phead == PutPointers(FoldLeft(PutStr, struct, s.head), s.channels)
           m == MeasureArray(mhead, PackAlign, SceneSize, s.scenes)
           p == PutArray(phead, PackAlign, SceneSize, s.scenes)
<1>1. /\ s.head \in Seq(Nat) /\ s.channels \in Seq(Nat)
      /\ s.scenes \in Seq(Scenes(Optional))
  BY SchemaFields
<1>2. Tracks(SchemaSize, struct)
  BY TracksStruct
<1> HIDE DEF struct
<1>3. Tracks(MeasureStrs(SchemaSize, s.head), FoldLeft(PutStr, struct, s.head))
  BY <1>1, <1>2, TracksStrs DEF MeasureStrs
<1>4. Tracks(mhead, phead)
  BY <1>1, <1>3, TracksPointers
<1> HIDE DEF mhead, phead
<1>5. PackAlign \in Alignments /\ SceneSize \in Nat
  BY DEF Alignments, SceneSize
<1>6. Tracks(m, p)
  BY <1>1, <1>4, <1>5, TracksArray
<1> HIDE DEF m, p
<1>7. Tracks(FoldLeft(MeasureScene, m, s.scenes),
    FoldLeft(PutScene, p, s.scenes))
  BY <1>1, <1>6, TracksScenes
<1> QED BY <1>7 DEF Bytes, Written, struct, mhead, phead, m, p
-----------------------------------------------------------------------------
(* The row of parameters. *)

AddWidth(off, p) == off + Width(p)
Join(s, t) == s \o t

AddedWidths == INSTANCE FoldProofs WITH Op <- AddWidth
Places == INSTANCE FoldProofs WITH Op <- Place
Joined == INSTANCE FoldProofs WITH Op <- Join

\* FoldLeft of the instances is the FoldLeft of the model.
LEMMA AddedWidthsFold ==
  \A base, s : FoldLeft(AddWidth, base, s) = AddedWidths!FoldLeft(AddWidth, base, s)
BY Zenon DEF FoldLeft, MapThenFoldSet, Max, AddedWidths!FoldLeft,
             AddedWidths!MapThenFoldSet, AddedWidths!Max

LEMMA PlacesFold ==
  \A base, s : FoldLeft(Place, base, s) = Places!FoldLeft(Place, base, s)
BY Zenon DEF FoldLeft, MapThenFoldSet, Max, Places!FoldLeft,
             Places!MapThenFoldSet, Places!Max

LEMMA JoinedFold ==
  \A base, s : FoldLeft(Join, base, s) = Joined!FoldLeft(Join, base, s)
BY Zenon DEF FoldLeft, MapThenFoldSet, Max, Joined!FoldLeft,
             Joined!MapThenFoldSet, Joined!Max

LEMMA JoinedFlatten == \A s : FlattenSeq(s) = Joined!FlattenSeq(s)
BY Zenon DEF FlattenSeq, Joined!FlattenSeq

LEMMA HostOffsetFold ==
  ASSUME NEW s, NEW i
  PROVE  HostOffset(s, i)
           = FoldLeft(AddWidth, 0, SubSeq(ParametersOf(s), 1, i - 1))
BY DEF HostOffset, AddWidth, FoldLeft, MapThenFoldSet

LEMMA MatrixCells == MatrixSide * MatrixSide \in Nat
BY BoundsAssumption

LEMMA WidthType == ASSUME NEW p PROVE Width(p) \in Nat
BY MatrixCells DEF Width, MatrixTypes, NumberTypes

LEMMA DefaultType ==
  ASSUME NEW p \in Parameters(Optional)
  PROVE  Default(p) \in Seq(Nat) /\ Len(Default(p)) = Width(p)
<1>1. CASE p.type \in MatrixTypes
  <2> DEFINE n == MatrixSide * MatrixSide
  <2>1. n \in Nat
    BY MatrixCells
  <2> HIDE DEF n
  <2>6. p.type \in MatrixTypes /\ p.type \notin NumberTypes
    BY <1>1 DEF MatrixTypes, NumberTypes
  <2>4. Default(p) = Identity
    BY <2>6 DEF Default
  <2>5. Width(p) = n
    BY <2>6 DEF Width, n
  <2>2. Default(p) = Identity /\ Width(p) = n
    BY <2>4, <2>5
  <2>3. Identity = [i \in 1..n |-> Identity[i]]
        /\ \A i \in 1..n : Identity[i] \in Nat
    BY DEF Identity, n
  <2> QED BY <2>1, <2>2, <2>3, IsSequence
<1>2. CASE p.type \in NumberTypes
  <2>1. p.type \notin MatrixTypes
    BY <1>2 DEF MatrixTypes, NumberTypes
  <2>2. Default(p) = <<OrZero(p.default)>> /\ Width(p) = 1
    BY <1>2, <2>1 DEF Default, Width
  <2>3. OrZero(p.default) \in Nat
    BY ParameterFields DEF OrZero, Optional
  <2> QED BY <2>2, <2>3
<1>3. CASE p.type \notin MatrixTypes /\ p.type \notin NumberTypes
  <2>1. Default(p) = <<>> /\ Width(p) = 0
    BY <1>3 DEF Default, Width
  <2> QED BY <2>1
<1> QED BY <1>1, <1>2, <1>3

LEMMA ParametersOfType ==
  ASSUME NEW s \in Schemas(Optional)
  PROVE  /\ ParametersOf(s) \in Seq(Parameters(Optional))
         /\ Len(ParametersOf(s)) \in Nat
         /\ DOMAIN ParametersOf(s) = 1..Len(ParametersOf(s))
<1>1. ParametersOf(s) \in Seq(Parameters(Optional))
  <2>1. CASE s.scenes = <<>>
    BY <2>1 DEF ParametersOf
  <2>2. CASE s.scenes # <<>>
    <3>1. 1 \in DOMAIN s.scenes
      BY <2>2, SchemaFields
    <3>2. s.scenes[1] \in Scenes(Optional)
      BY <3>1, SchemaFields
    <3> QED BY <2>2, <3>2, SceneFields DEF ParametersOf
  <2> QED BY <2>1, <2>2
<1> QED BY <1>1

\* A parameter lies behind those before it.
LEMMA HostOffsetSteps ==
  ASSUME NEW s \in Schemas(Optional)
  PROVE  /\ HostOffset(s, 1) = 0
         /\ \A i \in 1..Len(ParametersOf(s)) :
              HostOffset(s, i + 1) = HostOffset(s, i) + Width(ParametersOf(s)[i])
         /\ \A i \in 1..Len(ParametersOf(s)) + 1 : HostOffset(s, i) \in Nat
<1> DEFINE ps == ParametersOf(s)
           n == Len(ps)
<1>1. ps \in Seq(Parameters(Optional)) /\ n \in Nat
  BY ParametersOfType
<1> HIDE DEF ps
<1>2. HostOffset(s, 1) = 0
  <2>1. SubSeq(ps, 1, 1 - 1) = <<>>
    BY <1>1
  <2>2. FoldLeft(AddWidth, 0, <<>>) = 0
    BY AddedWidths!FoldNil, AddedWidthsFold
  <2> QED BY <2>1, <2>2, HostOffsetFold DEF ps
<1>3. ASSUME NEW i \in 1..n
      PROVE  HostOffset(s, i + 1) = HostOffset(s, i) + Width(ps[i])
  <2> DEFINE before == SubSeq(ps, 1, i - 1)
             p == ps[i]
  <2>1. before \in Seq(Parameters(Optional)) /\ p \in Parameters(Optional)
    BY <1>1
  <2>2. SubSeq(ps, 1, (i + 1) - 1) = Append(before, p)
    BY <1>1
  <2> HIDE DEF before, p
  <2>3. AddedWidths!FoldLeft(AddWidth, 0, Append(before, p))
          = AddWidth(AddedWidths!FoldLeft(AddWidth, 0, before), p)
    BY <2>1, AddedWidths!FoldAppend
  <2>4. HostOffset(s, i + 1)
          = AddedWidths!FoldLeft(AddWidth, 0, Append(before, p))
    BY <2>2, HostOffsetFold, AddedWidthsFold DEF ps
  <2>5. HostOffset(s, i) = AddedWidths!FoldLeft(AddWidth, 0, before)
    BY HostOffsetFold, AddedWidthsFold DEF ps, before
  <2> QED BY <2>3, <2>4, <2>5 DEF AddWidth, p
<1> DEFINE Reached == {k \in 0..n : HostOffset(s, k + 1) \in Nat}
<1>4. 0 \in Reached /\ \A k \in 1..n : k - 1 \in Reached => k \in Reached
  <2>1. 0 \in Reached
    BY <1>1, <1>2
  <2>2. ASSUME NEW k \in 1..n, k - 1 \in Reached PROVE k \in Reached
    <3>1. HostOffset(s, k) \in Nat
      <4>1. (k - 1) + 1 = k
        BY <1>1
      <4> QED BY <2>2, <4>1
    <3>2. Width(ps[k]) \in Nat
      BY WidthType
    <3>3. k \in 0..n
      BY <1>1
    <3> QED BY <1>3, <3>1, <3>2, <3>3
  <2> QED BY <2>1, <2>2
<1> HIDE DEF n, Reached
<1>5. \A k \in 0..n : k \in Reached
  BY <1>1, <1>4, AddedWidths!UpTo
<1>6. ASSUME NEW i \in 1..n + 1 PROVE HostOffset(s, i) \in Nat
  <2>1. i - 1 \in 0..n /\ (i - 1) + 1 = i
    BY <1>1
  <2> QED BY <1>5, <2>1 DEF Reached
<1> QED BY <1>2, <1>3, <1>6 DEF ps, n

\* Parameters do not overlap in the row.
LEMMA HostOffsetOrder ==
  ASSUME NEW s \in Schemas(Optional),
         NEW i \in 1..Len(ParametersOf(s)),
         NEW j \in i + 1..Len(ParametersOf(s)) + 1
  PROVE  HostOffset(s, i) + Width(ParametersOf(s)[i]) <= HostOffset(s, j)
<1> DEFINE n == Len(ParametersOf(s))
           m == n - i
           Reached == {k \in 0..m : HostOffset(s, i + 1) <= HostOffset(s, i + k + 1)}
<1>1. n \in Nat /\ i \in 1..n /\ j \in i + 1..n + 1 /\ m \in Nat
  BY ParametersOfType
<1>2. /\ \A k \in 1..n : /\ HostOffset(s, k) \in Nat
                           /\ HostOffset(s, k + 1) \in Nat
                           /\ HostOffset(s, k) <= HostOffset(s, k + 1)
      /\ HostOffset(s, i + 1) = HostOffset(s, i) + Width(ParametersOf(s)[i])
  <2>1. ASSUME NEW k \in 1..n
        PROVE  /\ HostOffset(s, k) \in Nat /\ HostOffset(s, k + 1) \in Nat
               /\ HostOffset(s, k + 1) = HostOffset(s, k) + Width(ParametersOf(s)[k])
    <3>1. k \in 1..n + 1 /\ k + 1 \in 1..n + 1
      BY <1>1
    <3> QED BY <3>1, HostOffsetSteps
  <2>2. \A k \in 1..n : Width(ParametersOf(s)[k]) \in Nat
    BY WidthType
  <2> QED BY <1>1, <2>1, <2>2
<1> HIDE DEF n
<1>3. 0 \in Reached
  BY <1>1, <1>2
<1>4. ASSUME NEW k \in 1..m, k - 1 \in Reached PROVE k \in Reached
  <2>1. i + k \in 1..n /\ i + (k - 1) + 1 = i + k /\ k \in 0..m
    BY <1>1
  <2>2. HostOffset(s, i + 1) <= HostOffset(s, i + k)
    BY <1>4, <2>1
  <2>3. HostOffset(s, i + k) <= HostOffset(s, i + k + 1)
    BY <1>2, <2>1
  <2>4. HostOffset(s, i + k) \in Nat /\ HostOffset(s, i + k + 1) \in Nat
        /\ HostOffset(s, i + 1) \in Nat
    BY <1>1, <1>2, <2>1
  <2> QED BY <2>1, <2>2, <2>3, <2>4
<1>5. 0 \in Reached /\ \A k \in 1..m : k - 1 \in Reached => k \in Reached
  BY <1>3, <1>4
<1> HIDE DEF Reached, m
<1>6. \A k \in 0..m : k \in Reached
  BY <1>1, <1>5, AddedWidths!UpTo
<1>7. (j - i - 1) \in 0..m /\ i + (j - i - 1) + 1 = j
  BY <1>1 DEF m
<1>8. HostOffset(s, i + 1) <= HostOffset(s, i + (j - i - 1) + 1)
  BY <1>6, <1>7 DEF Reached
<1> QED BY <1>2, <1>7, <1>8

LEMMA KeysOf ==
  ASSUME NEW s \in Schemas(Optional)
  PROVE  Keys(s) = {Key(ParametersOf(s)[j]) : j \in 1..Len(ParametersOf(s))}
BY ParametersOfType DEF Keys, ToSet

DistinctKeys(s) ==
  \A i, j \in DOMAIN ParametersOf(s) :
    Key(ParametersOf(s)[i]) = Key(ParametersOf(s)[j]) => i = j

\* The client's map has the offsets by which the host reads.
LEMMA OffsetsAre ==
  ASSUME NEW s \in Schemas(Optional)
  PROVE  /\ Offsets(s) \in [Keys(s) -> Nat]
         /\ DistinctKeys(s) =>
              \A i \in 1..Len(ParametersOf(s)) :
                Offsets(s)[Key(ParametersOf(s)[i])] = HostOffset(s, i)
<1> DEFINE ps == ParametersOf(s)
           n == Len(ps)
           none == [next |-> 0, map |-> <<>>]
           off(i) == HostOffset(s, i)
           keys(k) == {Key(ps[j]) : j \in 1..k}
<1>1. ps \in Seq(Parameters(Optional)) /\ n \in Nat /\ DOMAIN ps = 1..n
  BY ParametersOfType
<1>2. /\ off(1) = 0
      /\ \A i \in 1..n : off(i + 1) = off(i) + Width(ps[i])
      /\ \A i \in 1..n + 1 : off(i) \in Nat
  BY HostOffsetSteps
<1> HIDE DEF n, ps, off
<1>3. PICK m : Places!Steps(m, none, ps, n) /\ m[n] = FoldLeft(Place, none, ps)
  <2>1. \E m : Places!Steps(m, none, ps, n)
               /\ m[n] = Places!FoldLeft(Place, none, ps)
    BY <1>1, Places!FoldSteps
  <2> QED BY <2>1, PlacesFold
<1> DEFINE Good(k) ==
             /\ m[k].next = off(k + 1)
             /\ m[k].map = [x \in keys(k) |-> m[k].map[x]]
             /\ \A x \in keys(k) : m[k].map[x] \in Nat
             /\ DistinctKeys(s) => \A j \in 1..k : m[k].map[Key(ps[j])] = off(j)
           Reached == {k \in 0..n : Good(k)}
<1>4. Good(0)
  <2>1. m[0] = none
    BY <1>3 DEF Places!Steps
  <2>2. keys(0) = {} /\ none.map = <<>> /\ none.next = 0
    OBVIOUS
  <2>3. <<>> = [x \in {} |-> <<>>[x]]
    OBVIOUS
  <2> QED BY <1>2, <2>1, <2>2, <2>3
<1> HIDE DEF Good
<1>5. ASSUME NEW k \in 1..n, Good(k - 1) PROVE Good(k)
  <2> DEFINE p == ps[k]
             before == m[k - 1]
             map == [x \in DOMAIN before.map \cup {Key(p)} |->
                       IF x = Key(p) THEN before.next ELSE before.map[x]]
  <2>1. m[k] = [next |-> before.next + Width(p), map |-> map]
    BY <1>3 DEF Places!Steps, Place
  <2>0. (k - 1) + 1 = k
    BY <1>1
  <2>2. before.next = off(k) /\ off(k) \in Nat
    <3>1. before.next = off((k - 1) + 1)
      BY <1>5 DEF Good
    <3>2. k \in 1..n + 1
      BY <1>1
    <3> QED BY <1>2, <2>0, <3>1, <3>2
  <2>3. DOMAIN before.map = keys(k - 1) /\ keys(k) = keys(k - 1) \cup {Key(p)}
    <3>1. DOMAIN before.map = keys(k - 1)
      <4>1. m[k - 1].map = [x \in keys(k - 1) |-> m[k - 1].map[x]]
        BY <1>5 DEF Good
      <4> HIDE DEF keys
      <4> QED BY <4>1
    <3>2. \A x : x \in 1..k <=> (x \in 1..k - 1 \/ x = k)
      BY <1>1
    <3>3. keys(k) = keys(k - 1) \cup {Key(p)}
      BY <3>2
    <3> QED BY <3>1, <3>3
  <2>4. \A x \in keys(k - 1) : before.map[x] \in Nat
    BY <1>5 DEF Good
  <2>5. ASSUME DistinctKeys(s)
        PROVE  \A j \in 1..k - 1 : /\ Key(ps[j]) # Key(p)
                                   /\ before.map[Key(ps[j])] = off(j)
                                   /\ Key(ps[j]) \in keys(k - 1)
    <3>1. \A j \in 1..k - 1 : j \in 1..n /\ j # k
      BY <1>1
    <3>2. \A j \in 1..k - 1 : Key(ps[j]) # Key(p)
      BY <1>1, <2>5, <3>1 DEF DistinctKeys, ps
    <3>3. \A j \in 1..k - 1 : before.map[Key(ps[j])] = off(j)
      BY <1>5, <2>5 DEF Good
    <3> QED BY <3>2, <3>3
  <2> HIDE DEF before, keys
  <2>6. m[k].next = off(k + 1) /\ m[k].map = map
    BY <1>2, <2>1, <2>2
  <2>7. map = [x \in keys(k) |-> map[x]] /\ \A x \in keys(k) : map[x] \in Nat
    BY <2>2, <2>3, <2>4
  <2>8. ASSUME DistinctKeys(s), NEW j \in 1..k PROVE map[Key(ps[j])] = off(j)
    <3>1. CASE j = k
      BY <2>2, <3>1
    <3>2. CASE j # k
      <4>1. j \in 1..k - 1
        BY <1>1, <3>2
      <4> QED BY <2>3, <2>5, <2>8, <4>1
    <3> QED BY <3>1, <3>2
  <2> HIDE DEF map
  <2> QED BY <2>6, <2>7, <2>8 DEF Good
<1>6. 0 \in Reached /\ \A k \in 1..n : k - 1 \in Reached => k \in Reached
  <2>1. \A k \in 1..n : k \in 0..n
    BY <1>1
  <2>2. 0 \in 0..n
    BY <1>1
  <2> QED BY <1>4, <1>5, <2>1, <2>2
<1> HIDE DEF Reached
<1>7. \A k \in 0..n : k \in Reached
  BY <1>1, <1>6, Places!UpTo
<1>8. Good(n)
  BY <1>1, <1>7 DEF Reached
<1>9. Offsets(s) = m[n].map
  BY <1>3 DEF Offsets, ps
<1>10. Keys(s) = keys(n)
  BY KeysOf DEF ps, n
<1> DEFINE map == m[n].map
<1>11. /\ map = [x \in keys(n) |-> map[x]] /\ \A x \in keys(n) : map[x] \in Nat
       /\ DistinctKeys(s) => \A j \in 1..n : map[Key(ps[j])] = off(j)
  BY <1>8 DEF Good
<1> HIDE DEF map
<1>12. map \in [keys(n) -> Nat]
  BY <1>11, Zenon
<1> QED BY <1>9, <1>10, <1>11, <1>12 DEF ps, n, off, map

\* In the row of defaults each parameter has its own, where the host reads.
LEMMA DefaultsAre ==
  ASSUME NEW s \in Schemas(Optional)
  PROVE  /\ Defaults(s) \in Seq(Nat) /\ Len(Defaults(s)) = RowSize(s)
         /\ \A i \in 1..Len(ParametersOf(s)) :
              \A q \in 1..Width(ParametersOf(s)[i]) :
                Defaults(s)[HostOffset(s, i) + q] = Default(ParametersOf(s)[i])[q]
<1> DEFINE ps == ParametersOf(s)
           n == Len(ps)
           row(i) == Default(ps[i])
           rows == [i \in DOMAIN ps |-> row(i)]
           off(i) == HostOffset(s, i)
           w(i) == Width(ps[i])
<1>1. ps \in Seq(Parameters(Optional)) /\ n \in Nat /\ DOMAIN ps = 1..n
  BY ParametersOfType
<1>2. /\ off(1) = 0
      /\ \A i \in 1..n : off(i + 1) = off(i) + w(i)
      /\ \A i \in 1..n + 1 : off(i) \in Nat
  BY HostOffsetSteps
<1>3. \A i \in 1..n : \A j \in i + 1..n + 1 : off(i) + w(i) <= off(j)
  BY HostOffsetOrder
<1> HIDE DEF ps
<1>4. \A i \in 1..n : row(i) \in Seq(Nat) /\ Len(row(i)) = w(i) /\ w(i) \in Nat
  <2>1. \A i \in 1..n : ps[i] \in Parameters(Optional)
    BY <1>1
  <2> QED BY <2>1, DefaultType, WidthType
<1> HIDE DEF n, off, row, w
<1>5. rows = [i \in 1..n |-> rows[i]] /\ DOMAIN rows = 1..n
      /\ \A i \in 1..n : rows[i] = row(i)
  BY <1>1
<1> HIDE DEF rows
<1>6. rows \in Seq(Seq(Nat))
  BY <1>1, <1>4, <1>5, IsSequence
<1>7. PICK j : Joined!Steps(j, <<>>, rows, n) /\ j[n]
             = FoldLeft(Join, <<>>, rows)
  <2>1. \E j : Joined!Steps(j, <<>>, rows, n)
               /\ j[n] = Joined!FoldLeft(Join, <<>>, rows)
    <3>1. n \in Nat /\ DOMAIN rows = 1..n
      BY <1>1, <1>5
    <3> QED BY <3>1, Joined!FoldSteps
  <2> QED BY <2>1, JoinedFold
<1>8. Defaults(s) = j[n]
  <2>1. \A u, v \in Seq(Nat) : Join(u, v) = u \o v
    BY DEF Join
  <2>2. Defaults(s) = FlattenSeq(rows)
    BY DEF Defaults, rows, row, ps
  <2>3. Joined!FlattenSeq(rows) = Joined!FoldLeft(Join, <<>>, rows)
    BY <1>6, <2>1, Joined!FlattenIsFold
  <2> QED BY <1>7, <2>2, <2>3, JoinedFold, JoinedFlatten
<1> DEFINE Good(k) ==
             /\ j[k] \in Seq(Nat) /\ Len(j[k]) = off(k + 1)
             /\ \A i \in 1..k : \A q \in 1..w(i) : j[k][off(i) + q] = row(i)[q]
           Reached == {k \in 0..n : Good(k)}
<1>9. Good(0)
  <2>1. j[0] = <<>>
    BY <1>7 DEF Joined!Steps
  <2> QED BY <1>2, <2>1
<1> HIDE DEF Good
<1>10. ASSUME NEW k \in 1..n, Good(k - 1) PROVE Good(k)
  <2> DEFINE a == j[k - 1]
             b == row(k)
  <2>1. j[k] = a \o b
    BY <1>5, <1>7 DEF Joined!Steps, Join
  <2>2. a \in Seq(Nat) /\ Len(a) = off(k)
    <3>1. (k - 1) + 1 = k
      BY <1>1
    <3>2. a \in Seq(Nat) /\ Len(a) = off((k - 1) + 1)
      BY <1>10 DEF Good
    <3> QED BY <3>1, <3>2
  <2>3. b \in Seq(Nat) /\ Len(b) = w(k) /\ off(k + 1) = off(k) + w(k)
        /\ w(k) \in Nat /\ off(k) \in Nat
    BY <1>1, <1>2, <1>4
  <2>4. \A i \in 1..k - 1 : \A q \in 1..w(i) : a[off(i) + q] = row(i)[q]
    BY <1>10 DEF Good
  <2> DEFINE y == off(k)
             z == w(k)
  <2> HIDE DEF a, b, y, z
  <2>7. /\ a \in Seq(Nat) /\ Len(a) = y /\ b \in Seq(Nat) /\ Len(b) = z
        /\ y \in Nat /\ z \in Nat /\ off(k + 1) = y + z
    BY <2>2, <2>3 DEF y, z
  <2>8. /\ a \o b \in Seq(Nat) /\ Len(a \o b) = y + z
        /\ \A x \in 1..y : (a \o b)[x] = a[x]
        /\ \A q \in 1..z : (a \o b)[y + q] = b[q]
    <3>1. /\ a \o b \in Seq(Nat) /\ Len(a \o b) = Len(a) + Len(b)
          /\ \A x \in 1..Len(a) : (a \o b)[x] = a[x]
          /\ \A q \in 1..Len(b) : (a \o b)[Len(a) + q] = b[q]
      <4>1. a \in Seq(Nat) /\ b \in Seq(Nat)
        BY <2>7
      <4> QED BY ONLY <4>1
    <3> QED BY <2>7, <3>1
  <2>5. /\ a \o b \in Seq(Nat) /\ Len(a \o b) = off(k + 1)
        /\ \A x \in 1..off(k) : (a \o b)[x] = a[x]
        /\ \A q \in 1..w(k) : (a \o b)[off(k) + q] = b[q]
    BY <2>7, <2>8 DEF y, z
  <2>6. ASSUME NEW i \in 1..k, NEW q \in 1..w(i)
        PROVE  (a \o b)[off(i) + q] = row(i)[q]
    <3>1. CASE i = k
      BY <2>5, <3>1 DEF b
    <3>2. CASE i # k
      <4>1. i \in 1..k - 1 /\ i \in 1..n /\ k \in i + 1..n + 1 /\ i \in 1..n + 1
        BY <1>1, <3>2
      <4>2. off(i) + w(i) <= off(k) /\ off(i) \in Nat /\ w(i) \in Nat
        BY <1>2, <1>3, <1>4, <4>1
      <4>3. off(i) + q \in 1..off(k)
        BY <2>3, <4>2
      <4> QED BY <2>4, <2>5, <4>1, <4>3
    <3> QED BY <3>1, <3>2
  <2> QED BY <2>1, <2>5, <2>6 DEF Good
<1>11. 0 \in Reached /\ \A k \in 1..n : k - 1 \in Reached => k \in Reached
  <2>1. \A k \in 1..n : k \in 0..n
    BY <1>1
  <2>2. 0 \in 0..n
    BY <1>1
  <2> QED BY <1>9, <1>10, <2>1, <2>2
<1> HIDE DEF Reached
<1>12. \A k \in 0..n : k \in Reached
  BY <1>1, <1>11, Joined!UpTo
<1>13. Good(n)
  BY <1>1, <1>12 DEF Reached
<1>14. RowSize(s) = off(n + 1)
  BY DEF RowSize, off, n, ps
<1> QED BY <1>8, <1>13, <1>14 DEF Good, ps, n, off, w, row
-----------------------------------------------------------------------------
(* Types. *)

\* TypeOK variable by variable; the client is a record of its five members.
FileType ==
  /\ file \in [state : {"none", "torn", "whole"}, asset : Asset \cup {0},
               schema : Schemas(Optional)]
  /\ editor \in Asset \cup {0} /\ saves \in Nat

HostType ==
  /\ host \in [asset : Asset \cup {0}, schema : Schemas(Nat), size : Nat,
               complete : BOOLEAN, regions : Seq(Regions)]
  /\ nBytes \in Nat

ClientFields(c) ==
  /\ c = [asset |-> c.asset, schema |-> c.schema, param_map |-> c.param_map,
          param_values |-> c.param_values, assigned |-> c.assigned]
  /\ c.asset \in Asset \cup {0}
  /\ c.schema \in Schemas(Optional)
  /\ c.param_map \in [Keys(c.schema) -> Nat]
  /\ c.param_values \in Seq(Nat)
  /\ c.assigned \in [Keys(c.schema) -> Seq(Nat)]

ClientType == ClientFields(client) /\ sets \in Nat

FrameType == frame.asset \in Asset \cup {0} /\ frame.values \in Seq(Nat)

TypeInv == FileType /\ HostType /\ ClientType /\ FrameType

LEMMA AssetType ==
  /\ 0 \notin Asset
  /\ \A a \in Asset : Assets[a] \in Schemas(Nat)
BY AssetsAssumption DEF Asset

LEMMA NoSchemaType == ASSUME NEW D PROVE NoSchema \in Schemas(D)
BY DEF NoSchema, Schemas

LEMMA NoSchemaRow ==
  ParametersOf(NoSchema) = <<>> /\ Keys(NoSchema) = {}
<1>1. ParametersOf(NoSchema) = <<>>
  BY DEF ParametersOf, NoSchema
<1>2. Keys(NoSchema) = {}
  BY <1>1 DEF Keys, ToSet
<1> QED BY <1>1, <1>2

LEMMA HeadReplaced ==
  ASSUME NEW D, NEW s \in Schemas(D), NEW h \in Seq(Nat)
  PROVE  /\ [s EXCEPT !.head = h] \in Schemas(D)
         /\ [s EXCEPT !.head = h].scenes = s.scenes
<1>1. s = [head |-> s.head, channels |-> s.channels, scenes |-> s.scenes]
      /\ s.channels \in Seq(Nat) /\ s.scenes \in Seq(Scenes(D))
  BY SchemaFields
<1>2. PICK x, y, z : s = [head |-> x, channels |-> y, scenes |-> z]
  BY <1>1
<1>3. s.channels = y /\ s.scenes = z
  BY <1>2
<1>4. [[head |-> x, channels |-> y, scenes |-> z] EXCEPT !.head = h]
        = [head |-> h, channels |-> y, scenes |-> z]
  OBVIOUS
<1>5. [s EXCEPT !.head = h] = [head |-> h, channels |-> y, scenes |-> z]
  BY <1>2, <1>4
<1>6. y \in Seq(Nat) /\ z \in Seq(Scenes(D))
  BY <1>1, <1>3
<1> QED BY <1>3, <1>5, <1>6 DEF Schemas

\* What is read from JSON is complete in its texts.
LEMMA LoadedTexts ==
  ASSUME NEW s \in Schemas(Optional)
  PROVE  /\ FromJson(s) \in Schemas(Optional)
         /\ \A i \in DOMAIN FromJson(s).scenes : TextsGiven(FromJson(s).scenes[i])
<1> DEFINE l == FromJson(s)
<1>1. /\ l \in Schemas(Optional) /\ Named(s, l)
      /\ \A i \in DOMAIN s.scenes : \A k \in DOMAIN s.scenes[i].parameters :
           At(l, i, k) = Given(At(s, i, k))
  BY FromJsonFields
<1> HIDE DEF l
<1>2. ASSUME NEW i \in DOMAIN l.scenes, NEW k \in DOMAIN l.scenes[i].parameters
      PROVE  TextGiven(l.scenes[i].parameters[k])
  <2>1. i \in DOMAIN s.scenes /\ k \in DOMAIN s.scenes[i].parameters
    BY <1>1 DEF Named
  <2> DEFINE p == At(s, i, k)
  <2>2. p \in Parameters(Optional)
    BY <2>1, AtType
  <2>3. At(l, i, k) = Given(p)
    BY <1>1, <2>1
  <2> HIDE DEF p
  <2>4. /\ Given(p).type = p.type
        /\ Given(p).default = IF HasDefault(p) THEN OrZero(p.default) ELSE None
    BY <2>2, ParameterConverted
  <2>5. OrZero(p.default) \in Nat
    BY <2>2, ParameterFields DEF OrZero, Optional
  <2>6. TextGiven(Given(p))
    BY <2>4, <2>5 DEF TextGiven, HasDefault
  <2> QED BY <2>3, <2>6 DEF At
<1> QED BY <1>1, <1>2 DEF TextsGiven, l

LEMMA LoadedType ==
  ASSUME FileType
  PROVE  /\ Loaded \in Schemas(Optional)
         /\ Tracks(Bytes(Loaded), Written(Loaded))
         /\ Bytes(Loaded) \in Nat /\ Bytes(Loaded) >= SchemaSize
         /\ Written(Loaded) \in Seq(Regions)
<1>1. file.schema \in Schemas(Optional)
  BY DEF FileType
<1>2. /\ Loaded \in Schemas(Optional)
      /\ \A i \in DOMAIN Loaded.scenes : TextsGiven(Loaded.scenes[i])
  BY <1>1, LoadedTexts DEF Loaded
<1>3. Tracks(Bytes(Loaded), Written(Loaded))
  BY <1>2, WrittenTracks
<1> QED BY <1>2, <1>3 DEF Tracks

LEMMA AnswerType ==
  ASSUME FileType
  PROVE  AgentAnswer \in Schemas(Optional)
<1>1. NoSchema.head \in Seq(Nat)
  BY DEF NoSchema
<1>2. Loaded \in Schemas(Optional)
  BY LoadedType
<1>3. [Loaded EXCEPT !.head = NoSchema.head] \in Schemas(Optional)
  BY <1>1, <1>2, HeadReplaced
<1> QED BY <1>3, NoSchemaType DEF AgentAnswer

LEMMA OverType ==
  ASSUME NEW seq \in Seq(Nat), NEW off \in Nat, NEW v \in Seq(Nat)
  PROVE  /\ Over(seq, off, v) \in Seq(Nat)
         /\ Len(Over(seq, off, v)) = Len(seq)
<1> DEFINE n == Len(seq)
           u == Over(seq, off, v)
<1>1. n \in Nat /\ DOMAIN seq = 1..n /\ \A i \in 1..n : seq[i] \in Nat
  OBVIOUS
<1>2. \A i \in DOMAIN v : v[i] \in Nat
  OBVIOUS
<1>3. u = [i \in 1..n |-> IF i - off \in DOMAIN v THEN v[i - off] ELSE seq[i]]
  BY <1>1 DEF Over
<1> HIDE DEF n, u
<1>4. u = [i \in 1..n |-> u[i]] /\ \A i \in 1..n : u[i] \in Nat
  BY <1>1, <1>2, <1>3
<1>5. u \in Seq(Nat) /\ Len(u) = n
  BY <1>1, <1>4, IsSequence
<1> QED BY <1>5 DEF u, n

LEMMA ValuesType ==
  ASSUME NEW p, NEW v \in Values(p)
  PROVE  v \in Seq(Nat) /\ Len(v) \in 1..Width(p) /\ DOMAIN v = 1..Len(v)
<1>1. PICK n \in 1..Width(p), x \in NewValues : v = [i \in 1..n |-> x]
  BY DEF Values
<1>2. n \in Nat /\ x \in Nat
  BY WidthType, BoundsAssumption
<1>3. v = [i \in 1..n |-> v[i]] /\ \A i \in 1..n : v[i] \in Nat
  BY <1>1, <1>2
<1>4. v \in Seq(Nat) /\ Len(v) = n
  BY <1>2, <1>3, IsSequence
<1> QED BY <1>1, <1>4

LEMMA KeyOfParameter ==
  ASSUME NEW s \in Schemas(Optional), NEW p \in ToSet(ParametersOf(s))
  PROVE  p \in Parameters(Optional) /\ Key(p) \in Keys(s)
BY ParametersOfType DEF ToSet, Keys

\* What SetParameters does to the client.
LEMMA SetFields ==
  ASSUME NEW p \in ToSet(ParametersOf(client.schema)), NEW v \in Values(p),
         ClientFields(client), SetParameters(p, v)
  PROVE  /\ ClientFields(client')
         /\ client'.asset = client.asset /\ client'.schema = client.schema
         /\ client'.param_map = client.param_map
         /\ \/ /\ client'.param_values = client.param_values
               /\ client'.assigned = client.assigned
            \/ /\ client'.param_values =
                    Over(client.param_values, client.param_map[Key(p)], v)
               /\ client'.assigned = [client.assigned EXCEPT ![Key(p)] =
                    Over(client.assigned[Key(p)], 0, v)]
<1> DEFINE off == client.param_map[Key(p)]
           values == Over(client.param_values, off, v)
           mine == Over(client.assigned[Key(p)], 0, v)
           assigned == [client.assigned EXCEPT ![Key(p)] = mine]
<1>1. /\ v \in Seq(Nat) /\ Key(p) \in Keys(client.schema)
  BY ValuesType, KeyOfParameter DEF ClientFields
<1>2. off \in Nat /\ client.assigned[Key(p)] \in Seq(Nat)
  BY <1>1 DEF ClientFields
<1>3. values \in Seq(Nat) /\ mine \in Seq(Nat)
  BY <1>1, <1>2, OverType DEF ClientFields
<1> HIDE DEF values, mine
<1>4. assigned \in [Keys(client.schema) -> Seq(Nat)]
  BY <1>1, <1>3 DEF ClientFields
<1> HIDE DEF assigned
<1>5. CASE client' = client
  BY <1>5
<1>6. CASE client' = [client EXCEPT !.param_values = values,
                                    !.assigned[Key(p)] = mine]
  <2>1. PICK u, w, x, y, z :
          client = [asset |-> u, schema |-> w, param_map |-> x,
                    param_values |-> y, assigned |-> z]
    BY Zenon DEF ClientFields
  <2>2. client.asset = u /\ client.schema = w /\ client.param_map = x
        /\ client.param_values = y /\ client.assigned = z
    BY <2>1
  <2> DEFINE r == [asset |-> u, schema |-> w, param_map |-> x,
                   param_values |-> y, assigned |-> z]
  <2>3. [r EXCEPT !.param_values = values, !.assigned[Key(p)] = mine]
          = [[r EXCEPT !.param_values = values]
               EXCEPT !.assigned = [z EXCEPT ![Key(p)] = mine]]
    OBVIOUS
  <2>4. [r EXCEPT !.param_values = values]
          = [asset |-> u, schema |-> w, param_map |-> x,
             param_values |-> values, assigned |-> z]
    OBVIOUS
  <2> DEFINE g == [z EXCEPT ![Key(p)] = mine]
             r2 == [asset |-> u, schema |-> w, param_map |-> x,
                    param_values |-> values, assigned |-> z]
  <2>5. [r2 EXCEPT !.assigned = g]
          = [asset |-> u, schema |-> w, param_map |-> x,
             param_values |-> values, assigned |-> g]
    <3> HIDE DEF g
    <3> QED OBVIOUS
  <2>6. g = assigned
    BY <2>2 DEF assigned
  <2>7. client' = [asset |-> u, schema |-> w, param_map |-> x,
                   param_values |-> values, assigned |-> assigned]
    BY <1>6, <2>1, <2>3, <2>4, <2>5, <2>6
  <2> HIDE DEF r, r2, g
  <2>8. /\ client'.asset = client.asset /\ client'.schema = client.schema
        /\ client'.param_map = client.param_map
        /\ client'.param_values = values /\ client'.assigned = assigned
    BY <2>2, <2>7
  <2>9. client' = [asset |-> client'.asset, schema |-> client'.schema,
                   param_map |-> client'.param_map,
                   param_values |-> client'.param_values,
                   assigned |-> client'.assigned]
    BY <2>7
  <2>10. ClientFields(client')
    BY <1>3, <1>4, <2>8, <2>9 DEF ClientFields
  <2> QED BY <2>8, <2>10 DEF values, assigned, mine
<1>7. \/ client' = client
      \/ client' = [client EXCEPT !.param_values = values,
                                  !.assigned[Key(p)] = mine]
  BY DEF SetParameters, values, mine
<1> QED BY <1>5, <1>6, <1>7

LEMMA TypeInit == Init => TypeInv
<1> SUFFICES ASSUME Init PROVE TypeInv
  OBVIOUS
<1> USE DEF Init
<1>1. FileType
  BY NoSchemaType DEF FileType
<1>2. HostType
  BY NoSchemaType DEF HostType, HostWith
<1>3. ClientFields(NoClient)
  <2>1. NoClient.schema = NoSchema /\ NoClient.asset = 0
        /\ NoClient.param_map = <<>> /\ NoClient.param_values = <<>>
        /\ NoClient.assigned = <<>>
    BY DEF NoClient
  <2>2. NoClient = [asset |-> NoClient.asset, schema |-> NoClient.schema,
                    param_map |-> NoClient.param_map,
                    param_values |-> NoClient.param_values,
                    assigned |-> NoClient.assigned]
    BY DEF NoClient
  <2>3. <<>> \in [{} -> Nat] /\ <<>> \in [{} -> Seq(Nat)] /\ <<>> \in Seq(Nat)
    OBVIOUS
  <2> QED BY <2>1, <2>2, <2>3, NoSchemaType, NoSchemaRow DEF ClientFields
<1>4. FrameType
  BY DEF FrameType, NoFrame
<1> QED BY <1>1, <1>2, <1>3, <1>4 DEF TypeInv, ClientType

LEMMA TypeNext == TypeInv /\ [Next]_vars => TypeInv'
<1> SUFFICES ASSUME TypeInv, [Next]_vars PROVE TypeInv'
  OBVIOUS
<1>0. FileType /\ HostType /\ ClientType /\ FrameType
  BY DEF TypeInv
<1>1. ASSUME UNCHANGED fileVars PROVE FileType'
  BY <1>0, <1>1 DEF fileVars, FileType
<1>2. ASSUME UNCHANGED hostVars PROVE HostType'
  BY <1>0, <1>2 DEF hostVars, HostType
<1>3. ASSUME UNCHANGED clientVars PROVE ClientType'
  BY <1>0, <1>3 DEF clientVars, ClientType
<1>4. ASSUME UNCHANGED frame PROVE FrameType'
  BY <1>0, <1>4 DEF FrameType
<1>5. ASSUME NEW a \in Asset, SaveOpen(a) PROVE TypeInv'
  <2>1. FileType'
    BY <1>0, <1>5, NoSchemaType DEF FileType, SaveOpen
  <2> QED BY <1>2, <1>3, <1>4, <1>5, <2>1 DEF SaveOpen, TypeInv
<1>6. CASE SaveWrite
  <2>1. editor \in Asset
    BY <1>0, <1>6 DEF SaveWrite, FileType
  <2>2. ToJson(FromC(Assets[editor])) \in Schemas(Optional)
    BY <2>1, AssetType, SavedFields DEF Saved
  <2>3. FileType'
    BY <1>0, <1>6, <2>1, <2>2 DEF FileType, SaveWrite
  <2> QED BY <1>2, <1>3, <1>4, <1>6, <2>3 DEF SaveWrite, TypeInv
<1>7. CASE SaveThrows
  <2>1. FileType'
    BY <1>0, <1>7 DEF FileType, SaveThrows
  <2> QED BY <1>2, <1>3, <1>4, <1>7, <2>1 DEF SaveThrows, TypeInv
<1>8. ASSUME NEW a \in Asset, BuildSchema(a) PROVE TypeInv'
  <2>1. HostType'
    BY <1>0, <1>8, AssetType DEF HostType, BuildSchema, HostWith
  <2> QED BY <1>1, <1>3, <1>4, <1>8, <2>1 DEF BuildSchema, TypeInv
<1>9. CASE LoadSize
  <2>1. nBytes' \in Nat
    BY <1>0, <1>9, LoadedType DEF LoadSize, SchemaSize
  <2>2. HostType'
    BY <1>0, <1>9, <2>1 DEF HostType, LoadSize
  <2> QED BY <1>1, <1>3, <1>4, <1>9, <2>2 DEF LoadSize, TypeInv
<1>10. CASE LoadNotFound
  <2>1. Put(<<>>, PackAlign, SchemaSize) \in Seq(Regions)
    BY TracksStruct DEF Tracks
  <2>2. HostType'
    BY <1>0, <1>10, <2>1, NoSchemaType DEF HostType, LoadNotFound, HostWith
  <2> QED BY <1>1, <1>3, <1>4, <1>10, <2>2 DEF LoadNotFound, TypeInv
<1>11. CASE LoadOverflow
  <2>1. HostType'
    BY <1>0, <1>11, LoadedType DEF HostType, LoadOverflow
  <2> QED BY <1>1, <1>3, <1>4, <1>11, <2>1 DEF LoadOverflow, TypeInv
<1>12. CASE LoadInto
  <2>1. ToC(Loaded) \in Schemas(Nat)
    BY <1>0, LoadedType, ToCFields
  <2>2. /\ host' = [asset |-> file.asset, schema |-> ToC(Loaded),
                    complete |-> FALSE, size |-> nBytes,
                    regions |-> Written(Loaded)]
        /\ nBytes' = SchemaSize
    BY <1>12 DEF LoadInto, HostWith
  <2>3. file.asset \in Asset \cup {0} /\ nBytes \in Nat
        /\ Written(Loaded) \in Seq(Regions) /\ SchemaSize \in Nat
    BY <1>0, LoadedType DEF FileType, HostType, SchemaSize
  <2>4. HostType'
    BY <2>1, <2>2, <2>3 DEF HostType
  <2> QED BY <1>1, <1>3, <1>4, <1>12, <2>4 DEF LoadInto, TypeInv
<1>13. CASE SetSchema
  <2>1. MapScenes(host.schema, FillHash) \in Schemas(Nat)
    BY <1>0, FillHashFields DEF HostType
  <2>2. HostType'
    BY <1>0, <1>13, <2>1 DEF HostType, SetSchema
  <2> QED BY <1>1, <1>3, <1>4, <1>13, <2>2 DEF SetSchema, TypeInv
<1>14. CASE LoadSchema
  <2> DEFINE s == FromJson(AgentAnswer)
             given(k) == Default(CHOOSE p \in ToSet(ParametersOf(s)) : Key(p) = k)
             assigned == [k \in Keys(s) |-> given(k)]
             c == [asset |-> file.asset, schema |-> s, param_map |-> Offsets(s),
                   param_values |-> Defaults(s), assigned |-> assigned]
  <2>1. client' = c /\ sets' = 0
    BY <1>14 DEF LoadSchema
  <2>2. s \in Schemas(Optional)
    BY <1>0, AnswerType, FromJsonFields
  <2> HIDE DEF s
  <2>3. \A k \in Keys(s) : given(k) \in Seq(Nat)
    <3>1. TAKE k \in Keys(s)
    <3>2. \E p \in ToSet(ParametersOf(s)) : Key(p) = k
      BY DEF Keys
    <3> DEFINE p == CHOOSE p \in ToSet(ParametersOf(s)) : Key(p) = k
    <3>3. p \in ToSet(ParametersOf(s))
      BY <3>2
    <3> HIDE DEF p
    <3>4. Default(p) \in Seq(Nat)
      BY <2>2, <3>3, KeyOfParameter, DefaultType
    <3> QED BY <3>4 DEF p
  <2> HIDE DEF given
  <2>4. assigned \in [Keys(s) -> Seq(Nat)]
    BY <2>3
  <2> HIDE DEF assigned
  <2>5. /\ Offsets(s) \in [Keys(s) -> Nat] /\ Defaults(s) \in Seq(Nat)
        /\ file.asset \in Asset \cup {0}
    BY <1>0, <2>2, OffsetsAre, DefaultsAre DEF FileType
  <2>6. ClientFields(c)
    BY <2>2, <2>4, <2>5 DEF ClientFields
  <2> HIDE DEF c
  <2>7. ClientType'
    BY <2>1, <2>6 DEF ClientType
  <2> QED BY <1>1, <1>2, <1>4, <1>14, <2>7 DEF LoadSchema, TypeInv
<1>15. CASE Tick
  <2>1. FrameType'
    BY <1>0, <1>15 DEF FrameType, Tick, ClientType, ClientFields
  <2> QED BY <1>1, <1>2, <1>3, <1>15, <2>1 DEF Tick, TypeInv
<1>16. ASSUME NEW p \in ToSet(ParametersOf(client.schema)), NEW v \in Values(p),
              SetParameters(p, v)
       PROVE  TypeInv'
  <2>1. ClientFields(client')
    BY <1>0, <1>16, SetFields DEF ClientType
  <2>2. ClientType'
    BY <1>0, <1>16, <2>1 DEF ClientType, SetParameters
  <2> QED BY <1>1, <1>2, <1>4, <1>16, <2>2 DEF SetParameters, TypeInv
<1>17. CASE UNCHANGED vars
  BY <1>1, <1>2, <1>3, <1>4, <1>17 DEF vars, TypeInv
<1> QED BY <1>5, <1>6, <1>7, <1>8, <1>9, <1>10, <1>11, <1>12, <1>13, <1>14,
           <1>15, <1>16, <1>17 DEF Next, EditorNext, HostNext, ClientNext

\* Every variable has its type in every reachable state; for the regions this
\* is what to_c writes, for the client's map and values LoadSchema and
\* SetParameters (renderstream.hpp:441-592, client.cpp:151-210).
THEOREM TypeCorrect == Spec => []TypeOK
<1>1. TypeInv => TypeOK
  BY DEF TypeInv, TypeOK, FileType, HostType, ClientType, ClientFields,
         FrameType, Optional
<1> QED BY <1>1, TypeInit, TypeNext, PTL DEF Spec

-----------------------------------------------------------------------------
(* The buffer of the host. *)

\* Every size that rs_loadSchema names is that of a schema at least, and what
\* is in the host's buffer ends within it.
BufferInv ==
  /\ nBytes = 0 \/ nBytes >= SchemaSize
  /\ \/ host.regions = <<>>
     \/ \E off \in Nat : off <= host.size /\ Tracks(off, host.regions)

LEMMA BufferInit == Init => BufferInv
BY DEF Init, BufferInv, HostWith

LEMMA BufferNext == TypeInv /\ BufferInv /\ [Next]_vars => BufferInv'
<1> SUFFICES ASSUME TypeInv, BufferInv, [Next]_vars PROVE BufferInv'
  OBVIOUS
<1>0. FileType /\ HostType
  BY DEF TypeInv
<1>1. ASSUME UNCHANGED hostVars PROVE BufferInv'
  BY <1>1 DEF hostVars, BufferInv
<1>2. /\ Tracks(Bytes(Loaded), Written(Loaded))
      /\ Bytes(Loaded) \in Nat /\ Bytes(Loaded) >= SchemaSize
  BY <1>0, LoadedType
<1>3. nBytes \in Nat
  BY <1>0 DEF HostType
<1>4. ASSUME NEW a \in Asset, BuildSchema(a) PROVE BufferInv'
  BY <1>4 DEF BuildSchema, BufferInv, HostWith
<1>5. CASE LoadSize
  BY <1>2, <1>5 DEF LoadSize, BufferInv, SchemaSize
<1>6. CASE LoadNotFound
  <2>1. host'.regions = Put(<<>>, PackAlign, SchemaSize) /\ host'.size = nBytes
        /\ nBytes' = nBytes /\ nBytes > 0
    BY <1>6 DEF LoadNotFound, HostWith
  <2>2. nBytes >= SchemaSize
    BY <1>3, <2>1 DEF BufferInv
  <2>3. SchemaSize \in Nat /\ SchemaSize <= nBytes
    BY <1>3, <2>2 DEF SchemaSize
  <2> QED BY <2>1, <2>2, <2>3, TracksStruct DEF BufferInv
<1>7. CASE LoadOverflow
  BY <1>2, <1>7 DEF LoadOverflow, BufferInv
<1>8. CASE LoadInto
  <2>1. host'.regions = Written(Loaded) /\ host'.size = nBytes
        /\ nBytes' = SchemaSize /\ nBytes >= Bytes(Loaded)
    BY <1>8 DEF LoadInto, HostWith
  <2>2. Bytes(Loaded) <= nBytes /\ SchemaSize >= SchemaSize
    BY <1>2, <1>3, <2>1 DEF SchemaSize
  <2> QED BY <1>2, <2>1, <2>2 DEF BufferInv
<1>9. CASE SetSchema
  <2>1. host'.regions = host.regions /\ host'.size = host.size /\ nBytes' = nBytes
    BY <1>0, <1>9 DEF SetSchema, HostType
  <2> QED BY <2>1 DEF BufferInv
<1>10. CASE EditorNext \/ ClientNext \/ UNCHANGED vars
  BY <1>1, <1>10 DEF EditorNext, SaveOpen, SaveWrite, SaveThrows, ClientNext,
                     LoadSchema, Tick, SetParameters, vars
<1> QED BY <1>4, <1>5, <1>6, <1>7, <1>8, <1>9, <1>10 DEF Next, HostNext

\* What rs_loadSchema writes lies within the buffer whose size it has named,
\* aligned and without overlap, for every schema.
THEOREM LoadFitsBuffer == Spec => []FitsBuffer
<1>1. TypeInv /\ BufferInv => FitsBuffer
  <2> SUFFICES ASSUME TypeInv, BufferInv, NEW i \in DOMAIN host.regions
               PROVE  /\ EndOf(host.regions[i]) <= host.size
                      /\ host.regions[i].at % host.regions[i].alignment = 0
                      /\ \A j \in 1..i - 1 :
                           EndOf(host.regions[j]) <= host.regions[i].at
    BY DEF FitsBuffer
  <2>1. host.regions \in Seq(Regions) /\ host.size \in Nat
    BY DEF TypeInv, HostType
  <2>2. host.regions # <<>>
    OBVIOUS
  <2>3. PICK off \in Nat : off <= host.size /\ Tracks(off, host.regions)
    BY <2>2 DEF BufferInv
  <2>4. i \in 1..Len(host.regions)
    BY <2>1
  <2>5. /\ EndOf(host.regions[i]) <= off
        /\ host.regions[i].at % host.regions[i].alignment = 0
        /\ \A j \in 1..i - 1 : EndOf(host.regions[j]) <= host.regions[i].at
    BY <2>3, <2>4 DEF Tracks
  <2>6. EndOf(host.regions[i]) \in Nat
    <3>1. host.regions[i] \in Regions
      BY <2>1, <2>4
    <3> QED BY <3>1 DEF Regions, EndOf
  <2>7. EndOf(host.regions[i]) <= host.size
    BY <2>1, <2>3, <2>5, <2>6
  <2> QED BY <2>5, <2>7
<1>2. Init => TypeInv /\ BufferInv
  BY TypeInit, BufferInit
<1>3. TypeInv /\ BufferInv /\ [Next]_vars => (TypeInv /\ BufferInv)'
  BY TypeNext, BufferNext
<1> QED BY <1>1, <1>2, <1>3, PTL DEF Spec

-----------------------------------------------------------------------------
(* What the schema of an asset becomes on its way. *)

\* The schema a client makes of what the agent has sent of a file.
Received(j) == FromJson([FromJson(j) EXCEPT !.head = NoSchema.head])

\* The file has an asset as it was saved; what the host has of an asset makes
\* the same file; the client's schema is the one received.
VersionInv ==
  /\ file.asset # 0 => /\ file.state = "whole"
                       /\ file.schema = Saved(Assets[file.asset])
  /\ file.state = "whole" => file.asset # 0
  /\ host.asset # 0 => Saved(host.schema) = Saved(Assets[host.asset])
  /\ host.complete => host.asset # 0
  /\ client.asset # 0 => client.schema = Received(Saved(Assets[client.asset]))

LEMMA VersionInit == Init => VersionInv
BY DEF Init, VersionInv, HostWith, NoClient

LEMMA VersionNext == TypeInv /\ VersionInv /\ [Next]_vars => VersionInv'
<1> SUFFICES ASSUME TypeInv, VersionInv, [Next]_vars PROVE VersionInv'
  OBVIOUS
<1>0. FileType /\ HostType /\ ClientType
  BY DEF TypeInv
<1> DEFINE F == /\ file.asset # 0 => /\ file.state = "whole"
                                     /\ file.schema = Saved(Assets[file.asset])
                /\ file.state = "whole" => file.asset # 0
           H == /\ host.asset # 0 => Saved(host.schema) = Saved(Assets[host.asset])
                /\ host.complete => host.asset # 0
           C == client.asset # 0 =>
                  client.schema = Received(Saved(Assets[client.asset]))
<1>1. F /\ H /\ C
  BY DEF VersionInv
<1>2. (UNCHANGED file => F') /\ (UNCHANGED host => H') /\ (UNCHANGED client => C')
  BY <1>1
<1>3. F' /\ H' /\ C' => VersionInv'
  BY DEF VersionInv
<1>4. ASSUME NEW a \in Asset, SaveOpen(a) PROVE VersionInv'
  <2>1. F'
    BY <1>4 DEF SaveOpen
  <2> QED BY <1>2, <1>3, <1>4, <2>1 DEF SaveOpen, hostVars, clientVars
<1>5. CASE SaveWrite
  <2>1. F'
    BY <1>5 DEF SaveWrite, Saved
  <2> QED BY <1>2, <1>3, <1>5, <2>1 DEF SaveWrite, hostVars, clientVars
<1>6. CASE SaveThrows
  BY <1>2, <1>3, <1>6 DEF SaveThrows, hostVars, clientVars
<1>7. ASSUME NEW a \in Asset, BuildSchema(a) PROVE VersionInv'
  <2>1. H'
    BY <1>7 DEF BuildSchema, HostWith
  <2> QED BY <1>2, <1>3, <1>7, <2>1 DEF BuildSchema, fileVars, clientVars
<1>8. CASE LoadSize
  BY <1>2, <1>3, <1>8 DEF LoadSize, fileVars, clientVars
<1>9. CASE LoadNotFound
  <2>1. H'
    BY <1>9 DEF LoadNotFound, HostWith
  <2> QED BY <1>2, <1>3, <1>9, <2>1 DEF LoadNotFound, fileVars, clientVars
<1>10. CASE LoadOverflow
  BY <1>2, <1>3, <1>10 DEF LoadOverflow, fileVars, clientVars
<1>11. CASE LoadInto
  <2>1. file.asset \in Asset /\ file.schema = Saved(Assets[file.asset])
    BY <1>0, <1>1, <1>11 DEF LoadInto, Loadable, FileType
  <2>2. host'.asset = file.asset /\ host'.schema = ToC(FromJson(file.schema))
        /\ host'.complete = FALSE
    BY <1>11 DEF LoadInto, HostWith, Loaded
  <2>3. Saved(ToC(FromJson(Saved(Assets[file.asset])))) = Saved(Assets[file.asset])
    BY <2>1, AssetType, LoadedSavesSame
  <2>4. H'
    BY <2>1, <2>2, <2>3
  <2> QED BY <1>2, <1>3, <1>11, <2>4 DEF LoadInto, fileVars, clientVars
<1>12. CASE SetSchema
  <2>1. host'.asset = host.asset /\ host.asset # 0
        /\ host'.schema = MapScenes(host.schema, FillHash)
    BY <1>0, <1>12 DEF SetSchema, HostType
  <2>2. Saved(MapScenes(host.schema, FillHash)) = Saved(host.schema)
    BY <1>0, CompletedSavesSame DEF HostType
  <2>3. H'
    BY <1>1, <2>1, <2>2
  <2> QED BY <1>2, <1>3, <1>12, <2>3 DEF SetSchema, fileVars, clientVars
<1>13. CASE LoadSchema
  <2>1. client'.asset = file.asset /\ client'.schema = FromJson(AgentAnswer)
    BY <1>13 DEF LoadSchema
  <2>2. C'
    BY <1>1, <2>1 DEF AgentAnswer, Loadable, Loaded, Received
  <2> QED BY <1>2, <1>3, <1>13, <2>2 DEF LoadSchema, fileVars, hostVars
<1>14. CASE Tick
  BY <1>2, <1>3, <1>14 DEF Tick, fileVars, hostVars, clientVars
<1>15. ASSUME NEW p \in ToSet(ParametersOf(client.schema)), NEW v \in Values(p),
              SetParameters(p, v)
       PROVE  VersionInv'
  <2>1. client'.asset = client.asset /\ client'.schema = client.schema
    BY <1>0, <1>15, SetFields DEF ClientType
  <2>2. C'
    BY <1>1, <2>1
  <2> QED BY <1>2, <1>3, <1>15, <2>2 DEF SetParameters, fileVars, hostVars
<1>16. CASE UNCHANGED vars
  BY <1>2, <1>3, <1>16 DEF vars, fileVars, hostVars, clientVars
<1> QED BY <1>4, <1>5, <1>6, <1>7, <1>8, <1>9, <1>10, <1>11, <1>12, <1>13,
           <1>14, <1>15, <1>16 DEF Next, EditorNext, HostNext, ClientNext

LEMMA Versions == Spec => [](TypeInv /\ VersionInv)
<1>1. Init => TypeInv /\ VersionInv
  BY TypeInit, VersionInit
<1>2. TypeInv /\ VersionInv /\ [Next]_vars => (TypeInv /\ VersionInv)'
  BY TypeNext, VersionNext
<1> QED BY <1>1, <1>2, PTL DEF Spec

\* A schema that the host has built or loaded, and completed or not, makes the
\* file its first save made.
THEOREM SavesTheSame == Spec => []SavedAgainIsSame
<1>1. VersionInv => SavedAgainIsSame
  BY DEF VersionInv, SavedAgainIsSame, Saved
<1> QED BY <1>1, Versions, PTL

\* What the agent sends of a schema has its scenes.
LEMMA ReceivedFields ==
  ASSUME NEW s \in Schemas(Nat)
  PROVE  /\ Received(Saved(s)) \in Schemas(Optional)
         /\ DOMAIN Received(Saved(s)).scenes = DOMAIN s.scenes
         /\ \A i \in DOMAIN s.scenes :
              /\ Received(Saved(s)).scenes[i].hash = Hashed(s.scenes[i])
              /\ DOMAIN Received(Saved(s)).scenes[i].parameters
                   = DOMAIN s.scenes[i].parameters
              /\ \A k \in DOMAIN s.scenes[i].parameters :
                   LET p == At(Received(Saved(s)), i, k)
                   IN  /\ p.names = At(s, i, k).names
                       /\ p.type = TypeOf(At(s, i, k))
<1> DEFINE j == Saved(s)
           l == FromJson(j)
           h == [l EXCEPT !.head = NoSchema.head]
           r == FromJson(h)
<1>1. /\ j \in Schemas(Optional) /\ Named(s, j)
      /\ \A i \in DOMAIN s.scenes :
           /\ j.scenes[i].hash = Hashed(s.scenes[i])
           /\ \A k \in DOMAIN s.scenes[i].parameters :
                At(j, i, k) = Given(Read(At(s, i, k)))
  BY SavedFields
<1> HIDE DEF j
<1>2. /\ l \in Schemas(Optional) /\ Named(j, l) /\ SameHashes(j, l)
      /\ \A i \in DOMAIN j.scenes : \A k \in DOMAIN j.scenes[i].parameters :
           At(l, i, k) = Given(At(j, i, k))
  BY <1>1, FromJsonFields
<1> HIDE DEF l
<1>3. h \in Schemas(Optional) /\ h.scenes = l.scenes
  <2>1. NoSchema.head \in Seq(Nat)
    BY DEF NoSchema
  <2> QED BY <1>2, <2>1, HeadReplaced
<1> HIDE DEF h
<1>4. /\ r \in Schemas(Optional) /\ Named(h, r) /\ SameHashes(h, r)
      /\ \A i \in DOMAIN h.scenes : \A k \in DOMAIN h.scenes[i].parameters :
           At(r, i, k) = Given(At(h, i, k))
  BY <1>3, FromJsonFields
<1> HIDE DEF r
<1>5. Named(s, l)
  BY <1>1, <1>2, NamedTransitive
<1>6. /\ DOMAIN r.scenes = DOMAIN s.scenes
      /\ DOMAIN h.scenes = DOMAIN s.scenes
      /\ DOMAIN j.scenes = DOMAIN s.scenes
      /\ \A i \in DOMAIN s.scenes :
           /\ DOMAIN r.scenes[i].parameters = DOMAIN s.scenes[i].parameters
           /\ DOMAIN h.scenes[i].parameters = DOMAIN s.scenes[i].parameters
           /\ DOMAIN j.scenes[i].parameters = DOMAIN s.scenes[i].parameters
  BY <1>1, <1>3, <1>4, <1>5 DEF Named
<1>7. \A i \in DOMAIN s.scenes : r.scenes[i].hash = Hashed(s.scenes[i])
  BY <1>1, <1>2, <1>3, <1>4, <1>6 DEF SameHashes
<1>8. ASSUME NEW i \in DOMAIN s.scenes, NEW k \in DOMAIN s.scenes[i].parameters
      PROVE  /\ At(r, i, k).names = At(s, i, k).names
             /\ At(r, i, k).type = TypeOf(At(s, i, k))
  <2> DEFINE p == At(s, i, k)
  <2>1. p \in Parameters(Nat)
    BY AtType
  <2>2. At(r, i, k) = Given(At(h, i, k)) /\ At(h, i, k) = At(l, i, k)
    BY <1>3, <1>4, <1>6 DEF At
  <2>3. At(l, i, k) = Given(At(j, i, k)) /\ At(j, i, k) = Given(Read(p))
    BY <1>1, <1>2, <1>6
  <2> HIDE DEF p
  <2>4. /\ Read(p) \in Parameters(Optional) /\ Read(p).names = p.names
        /\ Read(p).type = TypeOf(p)
    BY <2>1, ParameterConverted
  <2> DEFINE q == Given(Read(p))
  <2>5. /\ q \in Parameters(Optional) /\ q.names = p.names
        /\ q.type = TypeOf(p)
    BY <2>4, ParameterConverted
  <2> HIDE DEF q
  <2>6. /\ Given(q) \in Parameters(Optional) /\ Given(q).names = p.names
        /\ Given(q).type = TypeOf(p)
    BY <2>5, ParameterConverted
  <2>7. /\ Given(Given(q)).names = p.names
        /\ Given(Given(q)).type = TypeOf(p)
    BY <2>6, ParameterConverted
  <2> QED BY <2>2, <2>3, <2>7 DEF p, q
<1> QED BY <1>4, <1>6, <1>7, <1>8 DEF r, h, l, j, Received

\* The client and a host with the same schema agree on the hash of its first
\* scene, whichever way the host came to it.
THEOREM HashesAreEqual == Spec => []HashesAgree
<1>1. TypeInv /\ VersionInv => HashesAgree
  <2> SUFFICES ASSUME TypeInv, VersionInv, host.complete,
                      client.asset = host.asset, host.schema.scenes # <<>>,
                      host.schema.scenes[1].hash # 0
               PROVE  client.schema.scenes[1].hash = host.schema.scenes[1].hash
    BY DEF HashesAgree
  <2> DEFINE a == Assets[host.asset]
             s == host.schema
  <2>1. host.asset # 0 /\ host.asset \in Asset /\ s \in Schemas(Nat)
    BY DEF VersionInv, TypeInv, HostType
  <2>2. a \in Schemas(Nat)
    BY <2>1, AssetType
  <2>3. Saved(s) = Saved(a) /\ client.schema = Received(Saved(a))
    BY <2>1 DEF VersionInv
  <2>4. 1 \in DOMAIN s.scenes /\ s.scenes # <<>>
    BY <2>1, SchemaFields
  <2>5. s.scenes[1].hash # 0
    OBVIOUS
  <2> HIDE DEF a, s
  <2>6. Received(Saved(s)).scenes[1].hash = Hashed(s.scenes[1])
    BY <2>1, <2>4, ReceivedFields
  <2>7. Hashed(s.scenes[1]) = s.scenes[1].hash
    BY <2>5 DEF Hashed
  <2> QED BY <2>3, <2>6, <2>7 DEF s
<1> QED BY <1>1, Versions, PTL

-----------------------------------------------------------------------------
(* The row the host reads. *)

\* t lays its parameters out as s does.
SameLayout(s, t) ==
  /\ Len(ParametersOf(t)) = Len(ParametersOf(s))
  /\ \A i \in 1..Len(ParametersOf(s)) :
       /\ Key(ParametersOf(t)[i]) = Key(ParametersOf(s)[i])
       /\ ParametersOf(t)[i].type = ParametersOf(s)[i].type

\* What the host and the client look at of a parameter fixes where it lies.
LEMMA WidthByType ==
  ASSUME NEW p, NEW q, p.type = q.type
  PROVE  Width(p) = Width(q)
BY DEF Width

LEMMA LayoutOffsets ==
  ASSUME NEW s \in Schemas(Optional), NEW t \in Schemas(Optional), SameLayout(s, t)
  PROVE  /\ \A i \in 1..Len(ParametersOf(s)) + 1 : HostOffset(t, i) = HostOffset(s, i)
         /\ RowSize(t) = RowSize(s)
         /\ \A i \in 1..Len(ParametersOf(s)) :
              Width(ParametersOf(t)[i]) = Width(ParametersOf(s)[i])
<1> DEFINE n == Len(ParametersOf(s))
           w(i) == Width(ParametersOf(s)[i])
           Reached == {k \in 0..n : HostOffset(t, k + 1) = HostOffset(s, k + 1)}
<1>1. n \in Nat /\ Len(ParametersOf(t)) = n
  BY ParametersOfType DEF SameLayout
<1>2. \A i \in 1..n : Width(ParametersOf(t)[i]) = w(i)
  BY WidthByType DEF SameLayout
<1>3. /\ HostOffset(s, 1) = 0 /\ HostOffset(t, 1) = 0
      /\ \A i \in 1..n : /\ HostOffset(s, i + 1) = HostOffset(s, i) + w(i)
                         /\ HostOffset(t, i + 1) = HostOffset(t, i) + w(i)
  BY <1>1, <1>2, HostOffsetSteps
<1> HIDE DEF n, w
<1>4. 0 \in Reached
  BY <1>1, <1>3
<1>5. ASSUME NEW k \in 1..n, k - 1 \in Reached PROVE k \in Reached
  <2>1. (k - 1) + 1 = k /\ k \in 0..n
    BY <1>1
  <2>2. HostOffset(t, k) = HostOffset(s, k)
    BY <1>5, <2>1
  <2> QED BY <1>3, <2>1, <2>2
<1>6. 0 \in Reached /\ \A k \in 1..n : k - 1 \in Reached => k \in Reached
  BY <1>4, <1>5
<1> HIDE DEF Reached
<1>7. \A k \in 0..n : k \in Reached
  BY <1>1, <1>6, AddedWidths!UpTo
<1>8. ASSUME NEW i \in 1..n + 1 PROVE HostOffset(t, i) = HostOffset(s, i)
  <2>1. i - 1 \in 0..n /\ (i - 1) + 1 = i
    BY <1>1
  <2> QED BY <1>7, <2>1 DEF Reached
<1>9. RowSize(t) = RowSize(s)
  <2>1. n + 1 \in 1..n + 1
    BY <1>1
  <2>2. HostOffset(t, n + 1) = HostOffset(s, n + 1)
    BY <1>8, <2>1
  <2> QED BY <1>1, <2>2 DEF RowSize, n
<1> QED BY <1>2, <1>8, <1>9 DEF n, w

\* An interval from 1 is known by its end.
LEMMA SameInterval ==
  ASSUME NEW m \in Nat, NEW n \in Nat, 1..m = 1..n
  PROVE  m = n
<1>1. m \in 1..m \/ m = 0
  OBVIOUS
<1>2. n \in 1..n \/ n = 0
  OBVIOUS
<1> QED BY <1>1, <1>2

\* A conversion that keeps names and types keeps the layout.
LEMMA LayoutKept ==
  ASSUME NEW D, NEW E, NEW s \in Schemas(D), NEW t \in Schemas(E),
         DOMAIN t.scenes = DOMAIN s.scenes,
         1 \in DOMAIN s.scenes =>
           /\ DOMAIN t.scenes[1].parameters = DOMAIN s.scenes[1].parameters
           /\ \A k \in DOMAIN s.scenes[1].parameters :
                /\ At(t, 1, k).names = At(s, 1, k).names
                /\ At(t, 1, k).type = At(s, 1, k).type
  PROVE  SameLayout(s, t)
<1>1. CASE s.scenes = <<>>
  <2>1. t.scenes = <<>>
    <3>1. Len(s.scenes) = 0
      BY <1>1
    <3>2. t.scenes \in Seq(Scenes(E)) /\ DOMAIN t.scenes = 1..0
      BY <3>1, SchemaFields
    <3>3. Len(t.scenes) \in Nat /\ DOMAIN t.scenes = 1..Len(t.scenes)
      BY SchemaFields
    <3>4. Len(t.scenes) = 0
      BY <3>2, <3>3, SameInterval
    <3> QED BY <3>2, <3>4
  <2>2. ParametersOf(s) = <<>> /\ ParametersOf(t) = <<>>
    BY <1>1, <2>1 DEF ParametersOf
  <2> QED BY <2>2 DEF SameLayout
<1>2. CASE s.scenes # <<>>
  <2>1. 1 \in DOMAIN s.scenes /\ t.scenes # <<>>
    <3>1. Len(s.scenes) \in Nat /\ DOMAIN s.scenes = 1..Len(s.scenes)
          /\ s.scenes \in Seq(Scenes(D)) /\ t.scenes \in Seq(Scenes(E))
      BY SchemaFields
    <3>2. Len(s.scenes) # 0
      BY <1>2, <3>1
    <3>3. 1 \in DOMAIN s.scenes
      BY <3>1, <3>2
    <3> QED BY <3>1, <3>3
  <2>2. /\ ParametersOf(s) = s.scenes[1].parameters
        /\ ParametersOf(t) = t.scenes[1].parameters
    BY <1>2, <2>1 DEF ParametersOf
  <2>3. s.scenes[1] \in Scenes(D) /\ t.scenes[1] \in Scenes(E)
    BY <2>1, SchemaFields
  <2>4. /\ Len(ParametersOf(s)) \in Nat
        /\ DOMAIN ParametersOf(s) = 1..Len(ParametersOf(s))
        /\ Len(ParametersOf(t)) \in Nat
        /\ DOMAIN ParametersOf(t) = 1..Len(ParametersOf(t))
        /\ DOMAIN ParametersOf(t) = DOMAIN ParametersOf(s)
    BY <2>1, <2>2, <2>3, SceneFields
  <2>5. Len(ParametersOf(t)) = Len(ParametersOf(s))
    BY <2>4, SameInterval
  <2>6. \A i \in 1..Len(ParametersOf(s)) :
          /\ ParametersOf(t)[i].names = ParametersOf(s)[i].names
          /\ ParametersOf(t)[i].type = ParametersOf(s)[i].type
    BY <2>1, <2>2, <2>4 DEF At
  <2> QED BY <2>5, <2>6 DEF SameLayout, Key
<1> QED BY <1>1, <1>2

LEMMA LayoutTransitive ==
  ASSUME NEW s, NEW t, NEW u, SameLayout(s, t), SameLayout(t, u)
  PROVE  SameLayout(s, u)
BY DEF SameLayout

\* Of a scene whose types are known nothing is converted that is laid out.
LEMMA KnownInFirst ==
  ASSUME NEW s \in Schemas(Nat), Addressable(s), 1 \in DOMAIN s.scenes,
         NEW k \in DOMAIN s.scenes[1].parameters
  PROVE  TypeOf(At(s, 1, k)) = At(s, 1, k).type
<1>1. s.scenes # <<>>
  OBVIOUS
<1>2. ParametersOf(s) = s.scenes[1].parameters
  BY <1>1 DEF ParametersOf
<1> QED BY <1>2 DEF Addressable, At, TypeOf

LEMMA LoadedLayout ==
  ASSUME NEW s \in Schemas(Nat), Addressable(s)
  PROVE  SameLayout(s, ToC(FromJson(Saved(s))))
<1> DEFINE t == ToC(FromJson(Saved(s)))
<1>1. /\ t \in Schemas(Nat) /\ Named(s, t)
      /\ \A i \in DOMAIN s.scenes : \A k \in DOMAIN s.scenes[i].parameters :
           At(t, i, k).type = TypeOf(At(s, i, k))
  BY LoadedSavesSame
<1> HIDE DEF t
<1>2. /\ DOMAIN t.scenes = DOMAIN s.scenes
      /\ 1 \in DOMAIN s.scenes =>
           /\ DOMAIN t.scenes[1].parameters = DOMAIN s.scenes[1].parameters
           /\ \A k \in DOMAIN s.scenes[1].parameters :
                /\ At(t, 1, k).names = At(s, 1, k).names
                /\ At(t, 1, k).type = At(s, 1, k).type
  BY <1>1, KnownInFirst DEF Named
<1>3. SameLayout(s, t)
  BY <1>1, <1>2, LayoutKept
<1> QED BY <1>3 DEF t

LEMMA ReceivedLayout ==
  ASSUME NEW s \in Schemas(Nat), Addressable(s)
  PROVE  SameLayout(s, Received(Saved(s)))
<1> DEFINE t == Received(Saved(s))
<1>1. /\ t \in Schemas(Optional)
      /\ DOMAIN t.scenes = DOMAIN s.scenes
      /\ \A i \in DOMAIN s.scenes :
           /\ DOMAIN t.scenes[i].parameters = DOMAIN s.scenes[i].parameters
           /\ \A k \in DOMAIN s.scenes[i].parameters :
                /\ At(t, i, k).names = At(s, i, k).names
                /\ At(t, i, k).type = TypeOf(At(s, i, k))
  BY ReceivedFields
<1> HIDE DEF t
<1>2. 1 \in DOMAIN s.scenes =>
           /\ DOMAIN t.scenes[1].parameters = DOMAIN s.scenes[1].parameters
           /\ \A k \in DOMAIN s.scenes[1].parameters :
                /\ At(t, 1, k).names = At(s, 1, k).names
                /\ At(t, 1, k).type = At(s, 1, k).type
  BY <1>1, KnownInFirst
<1>3. SameLayout(s, t)
  BY <1>1, <1>2, LayoutKept
<1> QED BY <1>3 DEF t

LEMMA CompletedLayout ==
  ASSUME NEW s \in Schemas(Nat)
  PROVE  SameLayout(s, MapScenes(s, FillHash))
<1> DEFINE t == MapScenes(s, FillHash)
<1>1. /\ t \in Schemas(Nat) /\ Named(s, t)
      /\ \A i \in DOMAIN s.scenes : \A k \in DOMAIN s.scenes[i].parameters :
           At(t, i, k) = At(s, i, k)
  BY FillHashFields
<1> HIDE DEF t
<1>2. /\ DOMAIN t.scenes = DOMAIN s.scenes
      /\ 1 \in DOMAIN s.scenes =>
           /\ DOMAIN t.scenes[1].parameters = DOMAIN s.scenes[1].parameters
           /\ \A k \in DOMAIN s.scenes[1].parameters :
                /\ At(t, 1, k).names = At(s, 1, k).names
                /\ At(t, 1, k).type = At(s, 1, k).type
  BY <1>1 DEF Named
<1>3. SameLayout(s, t)
  BY <1>1, <1>2, LayoutKept
<1> QED BY <1>3 DEF t

\* The values are a row laid out by the asset, and hold what was assigned.
Rowed(asset, values, assigned) ==
  asset # 0 /\ Addressable(Assets[asset]) =>
    /\ Len(values) = RowSize(Assets[asset])
    /\ \A i \in 1..Len(ParametersOf(Assets[asset])) :
         LET p == ParametersOf(Assets[asset])[i] IN
         /\ Len(assigned[Key(p)]) = Width(p)
         /\ \A q \in 1..Width(p) :
              values[HostOffset(Assets[asset], i) + q] = assigned[Key(p)][q]

\* The host lays the row out as the asset says, if it may; so does the client,
\* whose row and map are those of the schema it has; the tick has the row.
RowInv ==
  /\ host.asset # 0 /\ Addressable(Assets[host.asset])
       => SameLayout(Assets[host.asset], host.schema)
  /\ client.asset # 0 => client.param_map = Offsets(client.schema)
  /\ Rowed(client.asset, client.param_values, client.assigned)
  /\ Rowed(frame.asset, frame.values, frame.assigned)

LEMMA RowInit == Init => RowInv
BY DEF Init, RowInv, HostWith, NoClient, NoFrame, Rowed

\* In the same layout keys are as distinct.
LEMMA LayoutKeys ==
  ASSUME NEW s \in Schemas(Nat), Addressable(s), NEW t \in Schemas(Optional),
         SameLayout(s, t)
  PROVE  /\ DistinctKeys(t)
         /\ \A i, j \in 1..Len(ParametersOf(s)) :
              Key(ParametersOf(s)[i]) = Key(ParametersOf(s)[j]) => i = j
         /\ \A i \in 1..Len(ParametersOf(s)) :
              Key(ParametersOf(s)[i]) \in Keys(t)
<1> DEFINE n == Len(ParametersOf(s))
<1>1. /\ n \in Nat /\ DOMAIN ParametersOf(s) = 1..n
      /\ Len(ParametersOf(t)) = n /\ DOMAIN ParametersOf(t) = 1..n
  BY PlainIsGiven, ParametersOfType DEF SameLayout
<1>2. \A i \in 1..n : Key(ParametersOf(t)[i]) = Key(ParametersOf(s)[i])
  BY DEF SameLayout
<1>3. \A i, j \in 1..n :
        Key(ParametersOf(s)[i]) = Key(ParametersOf(s)[j]) => i = j
  BY <1>1 DEF Addressable
<1>4. \A i \in 1..n : Key(ParametersOf(t)[i]) \in Keys(t)
  BY <1>1, KeysOf
<1> HIDE DEF n
<1>5. DistinctKeys(t)
  BY <1>1, <1>2, <1>3 DEF DistinctKeys
<1> QED BY <1>2, <1>3, <1>4, <1>5 DEF n

\* What a client starts from, when it has loaded the schema of an asset.
LEMMA LoadedRow ==
  ASSUME NEW a \in Asset, NEW t \in Schemas(Optional),
         Addressable(Assets[a]) => SameLayout(Assets[a], t),
         NEW assigned,
         assigned = [k \in Keys(t) |->
                      Default(CHOOSE p \in ToSet(ParametersOf(t)) : Key(p) = k)]
  PROVE  Rowed(a, Defaults(t), assigned)
<1> SUFFICES ASSUME Addressable(Assets[a]) PROVE Rowed(a, Defaults(t), assigned)
  BY DEF Rowed
<1> DEFINE s == Assets[a]
           ps == ParametersOf(s)
           pt == ParametersOf(t)
           n == Len(ps)
<1>1. /\ s \in Schemas(Nat) /\ s \in Schemas(Optional) /\ Addressable(s)
      /\ SameLayout(s, t)
  BY AssetType, PlainIsGiven
<1> HIDE DEF s
<1>2. n \in Nat /\ Len(pt) = n /\ DOMAIN pt = 1..n
      /\ pt \in Seq(Parameters(Optional))
  BY <1>1, ParametersOfType DEF SameLayout
<1>3. /\ DistinctKeys(t)
      /\ \A i \in 1..n : Key(ps[i]) = Key(pt[i]) /\ Key(pt[i]) \in Keys(t)
  BY <1>1, LayoutKeys DEF SameLayout
<1>4. /\ \A i \in 1..n + 1 : HostOffset(t, i) = HostOffset(s, i)
      /\ RowSize(t) = RowSize(s) /\ \A i \in 1..n : Width(pt[i]) = Width(ps[i])
  BY <1>1, LayoutOffsets
<1>5. /\ Len(Defaults(t)) = RowSize(t)
      /\ \A i \in 1..n : \A q \in 1..Width(pt[i]) :
           Defaults(t)[HostOffset(t, i) + q] = Default(pt[i])[q]
  BY <1>2, DefaultsAre
<1> HIDE DEF ps, pt, n
<1>6. ASSUME NEW i \in 1..n
      PROVE  assigned[Key(ps[i])] = Default(pt[i])
  <2> DEFINE k == Key(pt[i])
             p == CHOOSE p \in ToSet(ParametersOf(t)) : Key(p) = k
  <2>1. assigned[k] = Default(p)
    BY <1>3
  <2>2. pt[i] \in ToSet(ParametersOf(t))
    BY <1>2 DEF pt, ToSet
  <2>3. p \in ToSet(ParametersOf(t)) /\ Key(p) = k
    BY <2>2
  <2> HIDE DEF p
  <2>4. PICK j \in 1..n : p = pt[j]
    BY <1>2, <2>3 DEF pt, ToSet
  <2>5. j = i
    BY <1>2, <1>3, <2>3, <2>4 DEF DistinctKeys, pt
  <2> QED BY <1>3, <2>1, <2>4, <2>5
<1>7. \A i \in 1..n : Len(Default(pt[i])) = Width(pt[i])
  <2>1. \A i \in 1..n : pt[i] \in Parameters(Optional)
    BY <1>2
  <2> QED BY <2>1, DefaultType
<1>8. ASSUME NEW i \in 1..n
      PROVE  /\ Len(assigned[Key(ps[i])]) = Width(ps[i])
             /\ \A q \in 1..Width(ps[i]) :
                  Defaults(t)[HostOffset(s, i) + q] = assigned[Key(ps[i])][q]
  <2>1. i \in 1..n + 1
    BY <1>2
  <2> DEFINE d == Default(pt[i])
  <2>2. assigned[Key(ps[i])] = d /\ Len(d) = Width(ps[i])
    BY <1>4, <1>6, <1>7
  <2>3. \A q \in 1..Width(ps[i]) : Defaults(t)[HostOffset(s, i) + q] = d[q]
    BY <1>4, <1>5, <2>1
  <2> HIDE DEF d
  <2> QED BY <2>2, <2>3
<1> QED BY <1>4, <1>5, <1>8 DEF Rowed, s, ps, n

\* What SetParameters leaves: the parameter that is set has its values in its
\* place, and no other is touched.
LEMMA SetRow ==
  ASSUME NEW p \in ToSet(ParametersOf(client.schema)), NEW v \in Values(p),
         ClientFields(client), SetParameters(p, v),
         client.asset # 0, Addressable(Assets[client.asset]),
         SameLayout(Assets[client.asset], client.schema),
         client.param_map = Offsets(client.schema),
         Rowed(client.asset, client.param_values, client.assigned)
  PROVE  Rowed(client.asset, client'.param_values, client'.assigned)
<1> DEFINE s == Assets[client.asset]
           t == client.schema
           ps == ParametersOf(s)
           pt == ParametersOf(t)
           n == Len(ps)
           off(i) == HostOffset(s, i)
           w(i) == Width(ps[i])
           key(i) == Key(ps[i])
           row == client.param_values
           mine == client.assigned
<1>1. /\ s \in Schemas(Nat) /\ s \in Schemas(Optional) /\ t \in Schemas(Optional)
      /\ Addressable(s) /\ SameLayout(s, t)
  BY AssetType, PlainIsGiven DEF ClientFields
<1>2. /\ row \in Seq(Nat) /\ mine \in [Keys(t) -> Seq(Nat)]
  BY DEF ClientFields
<1>3. /\ Len(row) = RowSize(s)
      /\ \A i \in 1..n : /\ Len(mine[key(i)]) = w(i)
                         /\ \A q \in 1..w(i) : row[off(i) + q] = mine[key(i)][q]
  BY DEF Rowed
<1>4. /\ n \in Nat /\ Len(pt) = n /\ DOMAIN pt = 1..n
  BY <1>1, ParametersOfType DEF SameLayout
<1> HIDE DEF s, t
<1>5. /\ DistinctKeys(t)
      /\ \A i \in 1..n : key(i) = Key(pt[i]) /\ key(i) \in Keys(t)
      /\ \A i, j \in 1..n : key(i) = key(j) => i = j
  BY <1>1, LayoutKeys DEF SameLayout
<1>6. /\ \A i \in 1..n + 1 : HostOffset(t, i) = off(i) /\ off(i) \in Nat
      /\ \A i \in 1..n : Width(pt[i]) = w(i) /\ w(i) \in Nat
      /\ \A i \in 1..n : \A j \in i + 1..n + 1 : off(i) + w(i) <= off(j)
      /\ RowSize(s) = off(n + 1)
  BY <1>1, LayoutOffsets, HostOffsetSteps, HostOffsetOrder, WidthType DEF RowSize
<1>7. PICK j \in 1..n : p = pt[j]
  BY <1>4 DEF ToSet, t
<1>8. Key(p) = key(j) /\ client.param_map[Key(p)] = off(j)
  <2>1. Offsets(t)[Key(pt[j])] = HostOffset(t, j)
    BY <1>1, <1>4, <1>5, <1>7, OffsetsAre
  <2>2. j \in 1..n + 1
    BY <1>4
  <2> QED BY <1>5, <1>6, <1>7, <2>1, <2>2 DEF t
<1>9. /\ v \in Seq(Nat) /\ DOMAIN v = 1..Len(v) /\ Len(v) \in Nat
      /\ Len(v) <= w(j)
  <2>1. v \in Seq(Nat) /\ Len(v) \in 1..Width(p) /\ DOMAIN v = 1..Len(v)
    BY ValuesType
  <2>2. Width(p) = w(j)
    BY <1>6, <1>7
  <2> QED BY <1>6, <2>1, <2>2
<1>10. CASE client'.param_values = row /\ client'.assigned = mine
  BY <1>10
<1>11. CASE /\ client'.param_values = Over(row, off(j), v)
            /\ client'.assigned = [mine EXCEPT ![key(j)] = Over(mine[key(j)], 0, v)]
  <2> DEFINE row2 == Over(row, off(j), v)
             set == Over(mine[key(j)], 0, v)
             mine2 == [mine EXCEPT ![key(j)] = set]
  <2>1. mine[key(j)] \in Seq(Nat) /\ Len(mine[key(j)]) = w(j)
    BY <1>2, <1>3, <1>5
  <2>2. off(j) \in Nat /\ w(j) \in Nat
    BY <1>4, <1>6
  <2>3. /\ Len(row2) = Len(row) /\ Len(set) = w(j)
    BY <1>2, <1>9, <2>1, <2>2, OverType
  <2>4. \A x \in 1..Len(row) :
          row2[x] = IF x - off(j) \in 1..Len(v) THEN v[x - off(j)] ELSE row[x]
    <3>1. DOMAIN row = 1..Len(row)
      BY <1>2
    <3> QED BY <1>9, <3>1 DEF Over
  <2>5. \A q \in 1..w(j) :
          set[q] = IF q \in 1..Len(v) THEN v[q] ELSE mine[key(j)][q]
    <3>1. DOMAIN mine[key(j)] = 1..w(j) /\ \A q \in 1..w(j) : q - 0 = q
      BY <2>1, <2>2
    <3> QED BY <1>9, <3>1 DEF Over
  <2> HIDE DEF row2, set
  <2>6. /\ mine2[key(j)] = set
        /\ \A i \in 1..n : i # j => mine2[key(i)] = mine[key(i)]
    BY <1>2, <1>5
  <2> HIDE DEF mine2, ps, pt, n, off, w, key, row, mine
  <2>7. ASSUME NEW i \in 1..n
        PROVE  /\ Len(mine2[key(i)]) = w(i)
               /\ \A q \in 1..w(i) : row2[off(i) + q] = mine2[key(i)][q]
    <3>1. Len(mine2[key(i)]) = w(i)
      BY <1>3, <2>3, <2>6
    <3>2. ASSUME NEW q \in 1..w(i) PROVE row2[off(i) + q] = mine2[key(i)][q]
      <4>1. /\ i \in 1..n + 1 /\ j \in 1..n + 1 /\ n + 1 \in i + 1..n + 1
        BY <1>4
      <4>2. off(i) \in Nat /\ off(j) \in Nat /\ w(i) \in Nat /\ w(j) \in Nat
            /\ off(n + 1) \in Nat /\ off(i) + w(i) <= off(n + 1)
        BY <1>4, <1>6, <4>1
      <4>3. off(i) + q \in 1..Len(row)
        BY <1>3, <1>6, <4>2
      <4>4. row2[off(i) + q] =
              IF (off(i) + q) - off(j) \in 1..Len(v)
              THEN v[(off(i) + q) - off(j)] ELSE row[off(i) + q]
        BY <2>4, <4>3
      <4>5. row[off(i) + q] = mine[key(i)][q]
        BY <1>3
      <4>6. CASE i = j
        <5>1. (off(i) + q) - off(j) = q
          BY <4>2, <4>6
        <5> QED BY <2>5, <2>6, <4>4, <4>5, <4>6, <5>1
      <4>7. CASE i < j
        <5>1. j \in i + 1..n + 1
          BY <1>4, <4>7
        <5>2. off(i) + w(i) <= off(j)
          BY <1>6, <5>1
        <5>3. (off(i) + q) - off(j) \notin 1..Len(v)
          BY <4>2, <5>2
        <5> QED BY <2>6, <4>4, <4>5, <4>7, <5>3
      <4>8. CASE j < i
        <5>1. i \in j + 1..n + 1
          BY <1>4, <4>8
        <5>2. off(j) + w(j) <= off(i)
          BY <1>6, <5>1
        <5>3. (off(i) + q) - off(j) \notin 1..Len(v)
          BY <1>9, <4>2, <5>2
        <5> QED BY <2>6, <4>4, <4>5, <4>8, <5>3
      <4> QED BY <1>4, <4>6, <4>7, <4>8
    <3> QED BY <3>1, <3>2
  <2>8. client'.param_values = row2 /\ client'.assigned = mine2
    BY <1>11 DEF row2, mine2, set
  <2>9. Len(row2) = RowSize(s)
    BY <1>3, <2>3
  <2> QED BY <2>7, <2>8, <2>9 DEF Rowed, s, ps, n, off, w, key
<1>12. \/ client'.param_values = row /\ client'.assigned = mine
       \/ /\ client'.param_values = Over(row, off(j), v)
          /\ client'.assigned = [mine EXCEPT ![key(j)] = Over(mine[key(j)], 0, v)]
  BY <1>8, SetFields
<1> QED BY <1>10, <1>11, <1>12

LEMMA RowNext == TypeInv /\ VersionInv /\ RowInv /\ [Next]_vars => RowInv'
<1> SUFFICES ASSUME TypeInv, VersionInv, RowInv, [Next]_vars PROVE RowInv'
  OBVIOUS
<1>0. FileType /\ HostType /\ ClientType
  BY DEF TypeInv
<1> DEFINE H == host.asset # 0 /\ Addressable(Assets[host.asset])
                  => SameLayout(Assets[host.asset], host.schema)
           M == client.asset # 0 => client.param_map = Offsets(client.schema)
           C == Rowed(client.asset, client.param_values, client.assigned)
           T == Rowed(frame.asset, frame.values, frame.assigned)
<1>1. H /\ M /\ C /\ T
  BY DEF RowInv
<1>2. /\ UNCHANGED host => H'
      /\ UNCHANGED client => M' /\ C'
      /\ UNCHANGED frame => T'
  BY <1>1
<1>3. H' /\ M' /\ C' /\ T' => RowInv'
  BY DEF RowInv
<1> HIDE DEF H, M, C, T
<1>4. CASE EditorNext \/ UNCHANGED vars
  BY <1>2, <1>3, <1>4 DEF EditorNext, SaveOpen, SaveWrite, SaveThrows, vars,
                          hostVars, clientVars
<1>5. ASSUME NEW a \in Asset, BuildSchema(a) PROVE RowInv'
  <2>1. host'.asset = a /\ host'.schema = Assets[a]
    BY <1>5 DEF BuildSchema, HostWith
  <2>2. SameLayout(Assets[a], Assets[a])
    BY DEF SameLayout
  <2>3. H'
    BY <2>1, <2>2 DEF H
  <2> QED BY <1>2, <1>3, <1>5, <2>3 DEF BuildSchema, clientVars
<1>6. CASE LoadSize
  BY <1>2, <1>3, <1>6 DEF LoadSize, clientVars
<1>7. CASE LoadNotFound
  <2>1. H'
    BY <1>7 DEF LoadNotFound, HostWith, H
  <2> QED BY <1>2, <1>3, <1>7, <2>1 DEF LoadNotFound, clientVars
<1>8. CASE LoadOverflow
  BY <1>2, <1>3, <1>8 DEF LoadOverflow, clientVars
<1>9. CASE LoadInto
  <2>1. file.asset \in Asset /\ file.schema = Saved(Assets[file.asset])
    BY <1>0, <1>9 DEF VersionInv, LoadInto, Loadable, FileType
  <2>2. host'.asset = file.asset /\ host'.schema = ToC(FromJson(file.schema))
    BY <1>9 DEF LoadInto, HostWith, Loaded
  <2>3. Addressable(Assets[file.asset]) =>
          SameLayout(Assets[file.asset],
                     ToC(FromJson(Saved(Assets[file.asset]))))
    BY <2>1, AssetType, LoadedLayout
  <2>4. H'
    BY <2>1, <2>2, <2>3 DEF H
  <2> QED BY <1>2, <1>3, <1>9, <2>4 DEF LoadInto, clientVars
<1>10. CASE SetSchema
  <2>1. host'.asset = host.asset
        /\ host'.schema = MapScenes(host.schema, FillHash)
    BY <1>0, <1>10 DEF SetSchema, HostType
  <2>2. SameLayout(host.schema, MapScenes(host.schema, FillHash))
    BY <1>0, CompletedLayout DEF HostType
  <2>3. H'
    BY <1>1, <2>1, <2>2, LayoutTransitive DEF H
  <2> QED BY <1>2, <1>3, <1>10, <2>3 DEF SetSchema, clientVars
<1>11. CASE LoadSchema
  <2> DEFINE s == FromJson(AgentAnswer)
             assigned == [k \in Keys(s) |->
                Default(CHOOSE p \in ToSet(ParametersOf(s)) : Key(p) = k)]
  <2>1. client' = [asset |-> file.asset, schema |-> s, param_map |-> Offsets(s),
                   param_values |-> Defaults(s), assigned |-> assigned]
    BY <1>11 DEF LoadSchema
  <2>2. s \in Schemas(Optional)
    BY <1>0, AnswerType, FromJsonFields
  <2>3. file.asset # 0 =>
          file.asset \in Asset /\ s = Received(Saved(Assets[file.asset]))
    BY <1>0 DEF VersionInv, FileType, AgentAnswer, Loadable, Loaded, Received
  <2>4. file.asset # 0 /\ Addressable(Assets[file.asset]) =>
          SameLayout(Assets[file.asset], s)
    BY <2>3, AssetType, ReceivedLayout
  <2> HIDE DEF s
  <2>5. /\ client'.asset = file.asset /\ client'.schema = s
        /\ client'.param_map = Offsets(s) /\ client'.param_values = Defaults(s)
        /\ client'.assigned = assigned
    <3> HIDE DEF assigned
    <3> QED BY <2>1
  <2>6. Rowed(file.asset, Defaults(s), assigned)
    <3>1. CASE file.asset = 0
      BY <3>1 DEF Rowed
    <3>2. CASE file.asset # 0
      BY <2>2, <2>3, <2>4, <3>2, LoadedRow
    <3> QED BY <3>1, <3>2
  <2> HIDE DEF assigned
  <2>7. M' /\ C'
    BY <2>5, <2>6 DEF M, C
  <2> QED BY <1>2, <1>3, <1>11, <2>7 DEF LoadSchema, hostVars
<1>12. CASE Tick
  <2>1. frame'.asset = client.asset /\ frame'.values = client.param_values
        /\ frame'.assigned = client.assigned
    BY <1>12 DEF Tick
  <2>2. T'
    BY <1>1, <2>1 DEF C, T
  <2> QED BY <1>2, <1>3, <1>12, <2>2 DEF Tick, hostVars, clientVars
<1>13. ASSUME NEW p \in ToSet(ParametersOf(client.schema)), NEW v \in Values(p),
              SetParameters(p, v)
       PROVE  RowInv'
  <2>1. ClientFields(client)
    BY <1>0 DEF ClientType
  <2>2. /\ client'.asset = client.asset /\ client'.schema = client.schema
        /\ client'.param_map = client.param_map
    BY <1>13, <2>1, SetFields
  <2>3. M'
    BY <1>1, <2>2 DEF M
  <2>4. ASSUME client.asset # 0, Addressable(Assets[client.asset])
        PROVE  C'
    <3>1. client.asset \in Asset
      BY <2>1, <2>4 DEF ClientFields
    <3>2. client.schema = Received(Saved(Assets[client.asset]))
      BY <2>4 DEF VersionInv
    <3>3. SameLayout(Assets[client.asset], client.schema)
      BY <2>4, <3>1, <3>2, AssetType, ReceivedLayout
    <3>4. client.param_map = Offsets(client.schema)
          /\ Rowed(client.asset, client.param_values, client.assigned)
      BY <1>1, <2>4 DEF M, C
    <3>5. Rowed(client.asset, client'.param_values, client'.assigned)
      BY <1>13, <2>1, <2>4, <3>3, <3>4, SetRow
    <3> QED BY <2>2, <3>5 DEF C
  <2>5. ASSUME ~(client.asset # 0 /\ Addressable(Assets[client.asset]))
        PROVE  C'
    BY <2>2, <2>5 DEF C, Rowed
  <2>6. C'
    BY <2>4, <2>5
  <2> QED BY <1>2, <1>3, <1>13, <2>3, <2>6 DEF SetParameters, hostVars
<1> QED BY <1>4, <1>5, <1>6, <1>7, <1>8, <1>9, <1>10, <1>11, <1>12, <1>13
        DEF Next, HostNext, ClientNext

\* Whatever was saved, loaded, completed and set before: a host with the
\* schema by which the tick was laid out reads of every parameter what the
\* application had set, or the default.
THEOREM HostReads == Spec => []HostReadsWhatWasSet
<1>1. TypeInv /\ RowInv => HostReadsWhatWasSet
  <2> SUFFICES ASSUME TypeInv, RowInv, host.asset # 0, host.asset = frame.asset,
                      Addressable(Assets[host.asset]),
                      NEW i \in DOMAIN ParametersOf(host.schema),
                      NEW k \in 1..Width(ParametersOf(host.schema)[i])
               PROVE  FrameParameters(host.schema)[HostOffset(host.schema, i) + k]
                        = frame.assigned[Key(ParametersOf(host.schema)[i])][k]
    BY DEF HostReadsWhatWasSet
  <2> DEFINE s == Assets[host.asset]
             t == host.schema
             n == Len(ParametersOf(s))
             w == Width(ParametersOf(s)[i])
             x == HostOffset(s, i) + k
             values == frame.values
  <2>1. /\ s \in Schemas(Nat) /\ s \in Schemas(Optional)
        /\ t \in Schemas(Optional) /\ values \in Seq(Nat)
    BY AssetType, PlainIsGiven DEF TypeInv, HostType, FrameType
  <2>2. SameLayout(s, t)
    BY DEF RowInv
  <2>3. /\ Len(values) = RowSize(s)
        /\ \A j \in 1..n : \A q \in 1..Width(ParametersOf(s)[j]) :
             values[HostOffset(s, j) + q]
               = frame.assigned[Key(ParametersOf(s)[j])][q]
    BY DEF RowInv, Rowed
  <2> HIDE DEF s, t
  <2>4. n \in Nat /\ i \in 1..n
    BY <2>1, <2>2, ParametersOfType DEF SameLayout, t
  <2>5. /\ Key(ParametersOf(t)[i]) = Key(ParametersOf(s)[i])
        /\ Width(ParametersOf(t)[i]) = w /\ k \in 1..w
    BY <2>2, <2>4, WidthByType DEF SameLayout, t
  <2>6. HostOffset(t, i) = HostOffset(s, i) /\ RowSize(t) = RowSize(s)
    <3>1. i \in 1..n + 1
      BY <2>4
    <3> QED BY <2>1, <2>2, <3>1, LayoutOffsets
  <2>7. HostOffset(s, i) \in Nat /\ w \in Nat /\ RowSize(s) \in Nat
        /\ HostOffset(s, i) + w <= RowSize(s)
    <3>1. n + 1 \in i + 1..n + 1 /\ i \in 1..n + 1 /\ n + 1 \in 1..n + 1
      BY <2>4
    <3> QED BY <2>1, <2>4, <3>1, HostOffsetSteps, HostOffsetOrder, WidthType
            DEF RowSize
  <2> HIDE DEF n, w
  <2>8. x \in 1..RowSize(s)
    BY <2>5, <2>7
  <2>9. values # <<>> /\ x <= Len(values)
    BY <2>1, <2>3, <2>7, <2>8
  <2>10. FrameParameters(t)[x] = values[x]
    BY <2>6, <2>8, <2>9 DEF FrameParameters
  <2>11. values[x] = frame.assigned[Key(ParametersOf(s)[i])][k]
    BY <2>3, <2>4, <2>5 DEF w
  <2> QED BY <2>5, <2>6, <2>10, <2>11 DEF t
<1>2. Init => TypeInv /\ VersionInv /\ RowInv
  BY TypeInit, VersionInit, RowInit
<1>3. TypeInv /\ VersionInv /\ RowInv /\ [Next]_vars
        => (TypeInv /\ VersionInv /\ RowInv)'
  BY TypeNext, VersionNext, RowNext
<1> QED BY <1>1, <1>2, <1>3, PTL DEF Spec
=============================================================================
