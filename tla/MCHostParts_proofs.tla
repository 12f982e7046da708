-------------------------- MODULE MCHostParts_proofs -------------------------
(***************************************************************************)
(* What holds of every edit of config.json, and of every host that runs    *)
(* the components of MCHostParts: each of them behaves as its own          *)
(* specification says, so that what NodeFiles_proofs and HostParts_proofs  *)
(* show of the components is true of the whole, for every value of the     *)
(* constants.                                                              *)
(***************************************************************************)
EXTENDS MCHostParts, NodeFiles_proofs, HostParts_proofs

-----------------------------------------------------------------------------
(* ConfigDocument.  What a document is made of.                            *)

\* A name put into an object, and one taken out of it.
LEMMA WithIs ==
    ASSUME NEW f, NEW n, NEW v
    PROVE  /\ \A m : m \in DOMAIN With(f, n, v) <=> m \in DOMAIN f \/ m = n
           /\ With(f, n, v)[n] = v
           /\ \A m \in DOMAIN f : m # n => With(f, n, v)[m] = f[m]
BY DEF With, Joined, One

LEMMA LessIs ==
    ASSUME NEW f, NEW n
    PROVE  /\ \A m : m \in DOMAIN Less(f, n) <=> m \in DOMAIN f /\ m # n
           /\ \A m \in DOMAIN f : m # n => Less(f, n)[m] = f[m]
BY DEF Less, Restrict

LEMMA ObjectIs ==
    ASSUME NEW fields
    PROVE  Object(fields).kind = "object" /\ Object(fields).fields = fields
BY DEF Object, Value

LEMMA TopIs == Top \notin Sections /\ Top # "Seed"
BY Zenon DEF Top, Sections

LEMMA EmptyIs == DOMAIN <<>> = {}
OBVIOUS

\* A key of the schema is in a section, or is the one name at the top.
LEMMA SchemaIs ==
    ASSUME NEW k \in Schema
    PROVE  /\ k = <<k[1], k[2]>>
           /\ k[1] \in Sections \/ k[1] = Top
           /\ k[1] = Top => k[2] = "LogLevel"
<1>1. CASE k = <<Top, "LogLevel">>
  BY <1>1, TopIs
<1>2. CASE k \in {<<"RPC", "EnableHTTP">>, <<"RPC", "HTTPHost">>, <<"RPC", "HTTPPort">>,
                  <<"RPC", "HTTPCors">>, <<"Net", "MinPeers">>, <<"Net", "MaxPeers">>,
                  <<"Producer", "Address">>}
  <2>1. k = <<k[1], k[2]>> /\ k[1] \in Sections
    BY <1>2 DEF Sections
  <2> QED
    BY <2>1, TopIs
<1> QED
  BY <1>1, <1>2 DEF Schema

\* The keys of a document: the settings of the sections that are objects,
\* and every other name at the top, taken apart at its first dot.
LEMMA KeysAre ==
    ASSUME NEW d, NEW s, NEW n
    PROVE  <<s, n>> \in ListKeys(d) <=>
             \/ /\ s \in Sections \cap DOMAIN d /\ d[s].kind = "object"
                /\ n \in DOMAIN d[s].fields
             \/ /\ s = Top /\ n \in DOMAIN d /\ n # "Seed.Nodes"
                /\ ~(n \in Sections /\ d[n].kind = "object")
             \/ s = "Seed" /\ n = "Nodes" /\ "Seed.Nodes" \in DOMAIN d
<1>1. \A t, m, f : <<s, n>> = <<t, f>> <=> s = t /\ n = f
  OBVIOUS
<1>2. <<s, n>> \in ListKeys(d) <=>
        \E m \in DOMAIN d : <<s, n>> \in IF m \in Sections /\ d[m].kind = "object"
                                         THEN {<<m, f>> : f \in DOMAIN d[m].fields}
                                         ELSE {SplitName(m)}
  BY DEF ListKeys
<1>3. ASSUME NEW m \in DOMAIN d, m \in Sections, d[m].kind = "object"
      PROVE  <<s, n>> \in {<<m, f>> : f \in DOMAIN d[m].fields} <=>
                s = m /\ n \in DOMAIN d[m].fields
  BY <1>1
<1>4. ASSUME NEW m
      PROVE  <<s, n>> = SplitName(m) <=>
               \/ m # "Seed.Nodes" /\ s = Top /\ n = m
               \/ m = "Seed.Nodes" /\ s = "Seed" /\ n = "Nodes"
  BY <1>1 DEF SplitName
<1>5. "Seed.Nodes" \notin Sections /\ Top \notin Sections /\ "Seed" \notin Sections
  BY TopIs DEF Sections
<1>6. ASSUME NEW m \in DOMAIN d
      PROVE  <<s, n>> \in (IF m \in Sections /\ d[m].kind = "object"
                          THEN {<<m, f>> : f \in DOMAIN d[m].fields}
                          ELSE {SplitName(m)}) <=>
               IF m \in Sections /\ d[m].kind = "object"
               THEN s = m /\ n \in DOMAIN d[m].fields
               ELSE \/ m # "Seed.Nodes" /\ s = Top /\ n = m
                    \/ m = "Seed.Nodes" /\ s = "Seed" /\ n = "Nodes"
  BY <1>3, <1>4
<1>7. <<s, n>> \in ListKeys(d) <=>
        \E m \in DOMAIN d :
            IF m \in Sections /\ d[m].kind = "object"
            THEN s = m /\ n \in DOMAIN d[m].fields
            ELSE \/ m # "Seed.Nodes" /\ s = Top /\ n = m
                 \/ m = "Seed.Nodes" /\ s = "Seed" /\ n = "Nodes"
  BY <1>2, <1>6
<1> QED
  BY <1>5, <1>7

\* Every key is a pair.
LEMMA KeysArePairs ==
    ASSUME NEW d, NEW k \in ListKeys(d)
    PROVE  k = <<k[1], k[2]>>
<1>1. PICK m \in DOMAIN d : k \in IF m \in Sections /\ d[m].kind = "object"
                                  THEN {<<m, f>> : f \in DOMAIN d[m].fields}
                                  ELSE {SplitName(m)}
  BY DEF ListKeys
<1>2. \E s, n : k = <<s, n>>
  BY <1>1 DEF SplitName
<1> QED
  BY <1>2

-----------------------------------------------------------------------------
(* Unset.                                                                  *)
LEMMA UnsetAtTop ==
    ASSUME NEW d, NEW n, NEW e, e = Unset(d, <<Top, n>>)
    PROVE  /\ \A m : m \in DOMAIN e <=> m \in DOMAIN d /\ m # n
           /\ \A m \in DOMAIN e : e[m] = d[m]
<1>1. e = Less(d, n)
  BY DEF Unset
<1>2. \A m : m \in DOMAIN e <=> m \in DOMAIN d /\ m # n
  BY <1>1, LessIs
<1>3. ASSUME NEW m \in DOMAIN e PROVE e[m] = d[m]
  BY <1>1, <1>2, <1>3, LessIs
<1> QED
  BY <1>2, <1>3

\* A section that loses its last key goes with it.
LEMMA UnsetInSection ==
    ASSUME NEW d, NEW s, NEW n, s # Top, NEW e, e = Unset(d, <<s, n>>)
    PROVE  /\ \A m : m # s => (m \in DOMAIN e <=> m \in DOMAIN d)
           /\ \A m \in DOMAIN e : m # s => e[m] = d[m]
           /\ s \in DOMAIN e =>
                \/ s \in DOMAIN d /\ e = d /\ d[s].kind = "null"
                \/ /\ s \in DOMAIN d /\ e[s].kind = "object" /\ d[s].kind = "object"
                   /\ \A f : f \in DOMAIN e[s].fields <=> f \in DOMAIN d[s].fields /\ f # n
                   /\ \A f \in DOMAIN e[s].fields : e[s].fields[f] = d[s].fields[f]
<1> DEFINE left == Less(Members(d, s), n)
<1>1. e = IF s \notin DOMAIN d \/ d[s].kind = "null" THEN d
          ELSE IF DOMAIN left = {} THEN Less(d, s)
          ELSE With(d, s, Object(left))
  BY DEF Unset
<1>2. \A f : f \in DOMAIN left <=> f \in DOMAIN Members(d, s) /\ f # n
  BY LessIs
<1>3. ASSUME NEW f \in DOMAIN left PROVE left[f] = Members(d, s)[f]
  BY <1>2, <1>3, LessIs
<1> HIDE DEF left
<1>4. CASE s \notin DOMAIN d \/ d[s].kind = "null"
  <2>1. e = d
    BY <1>1, <1>4
  <2> QED
    BY <1>4, <2>1
<1>5. CASE s \in DOMAIN d /\ d[s].kind # "null" /\ DOMAIN left = {}
  <2>1. e = Less(d, s)
    BY <1>1, <1>5
  <2>2. \A m : m \in DOMAIN e <=> m \in DOMAIN d /\ m # s
    BY <2>1, LessIs
  <2>3. ASSUME NEW m \in DOMAIN e PROVE e[m] = d[m] /\ m # s
    BY <2>1, <2>2, <2>3, LessIs
  <2> QED
    BY <2>2, <2>3
<1>6. CASE s \in DOMAIN d /\ d[s].kind # "null" /\ DOMAIN left # {}
  <2>1. e = With(d, s, Object(left))
    BY <1>1, <1>6
  <2>2. d[s].kind = "object" /\ Members(d, s) = d[s].fields
    BY <1>2, <1>6, EmptyIs DEF Members
  <2>3. \A m : m \in DOMAIN e <=> m \in DOMAIN d
    BY <1>6, <2>1, WithIs
  <2>4. e[s] = Object(left)
    BY <2>1, WithIs
  <2>5. ASSUME NEW m \in DOMAIN e, m # s PROVE e[m] = d[m]
    BY <2>1, <2>3, <2>5, WithIs
  <2>6. e[s].kind = "object" /\ e[s].fields = left
    BY <2>4, ObjectIs
  <2> QED
    BY <1>2, <1>3, <1>6, <2>2, <2>3, <2>5, <2>6
<1> QED
  BY <1>4, <1>5, <1>6

-----------------------------------------------------------------------------
(* Set.                                                                    *)
LEMMA SetAtTop ==
    ASSUME NEW d, NEW k, k[1] = Top, NEW v
    PROVE  /\ \A m : m \in DOMAIN Set(d, k, v) <=> m \in DOMAIN d \/ m = k[2]
           /\ Set(d, k, v)[k[2]] = v
           /\ \A m \in DOMAIN d : m # k[2] => Set(d, k, v)[m] = d[m]
<1>1. Set(d, k, v) = With(d, k[2], v)
  BY DEF Set
<1> QED
  BY <1>1, WithIs

\* A section that is absent or null is made.
LEMMA SetInSection ==
    ASSUME NEW d, NEW k, k[1] # Top, NEW v
    PROVE  /\ \A m : m \in DOMAIN Set(d, k, v) <=> m \in DOMAIN d \/ m = k[1]
           /\ \A m \in DOMAIN d : m # k[1] => Set(d, k, v)[m] = d[m]
           /\ Set(d, k, v)[k[1]] = Object(With(Members(d, k[1]), k[2], v))
<1>1. PICK filled : filled = Object(With(Members(d, k[1]), k[2], v))
  OBVIOUS
<1>2. Set(d, k, v) = With(d, k[1], filled)
  BY <1>1 DEF Set
<1> QED
  BY <1>1, <1>2, WithIs

-----------------------------------------------------------------------------
(* What holds of the keys that are left.                                   *)
LEMMA HasIs ==
    ASSUME NEW d, NEW s, NEW n, s # Top
    PROVE  /\ Has(d, <<s, n>>) <=> /\ s \in DOMAIN d /\ d[s].kind = "object"
                                   /\ n \in DOMAIN d[s].fields
           /\ Has(d, <<s, n>>) => Get(d, <<s, n>>) = d[s].fields[n]
<1>1. Has(d, <<s, n>>) <=> ~Broken(d, s) /\ n \in DOMAIN Members(d, s)
  BY DEF Has, Readable, Holder
<1>2. Get(d, <<s, n>>) = Members(d, s)[n]
  BY DEF Get, Holder
<1>3. CASE s \in DOMAIN d /\ d[s].kind = "object"
  BY <1>1, <1>2, <1>3 DEF Broken, Members
<1>4. CASE ~(s \in DOMAIN d /\ d[s].kind = "object")
  <2>1. Members(d, s) = <<>>
    BY <1>4 DEF Members
  <2> QED
    BY <1>1, <1>4, <2>1, EmptyIs
<1> QED
  BY <1>3, <1>4

LEMMA HasAtTop ==
    ASSUME NEW d, NEW n
    PROVE  /\ Has(d, <<Top, n>>) <=> n \in DOMAIN d
           /\ Get(d, <<Top, n>>) = d[n]
BY DEF Has, Get, Readable, Holder

\* A key of the schema, taken apart.
LEMMA SchemaPair ==
    ASSUME NEW q \in Schema
    PROVE  \E s, n : q = <<s, n>> /\ (s \in Sections \/ (s = Top /\ n = "LogLevel"))
<1>1. q = <<q[1], q[2]>> /\ (q[1] \in Sections \/ q[1] = Top) /\ (q[1] = Top => q[2] = "LogLevel")
  BY SchemaIs
<1> QED
  BY <1>1, Zenon

LEMMA NamesApart == "LogLevel" \notin Sections /\ "LogLevel" # "Seed.Nodes" /\ "Seed" \notin Sections
BY DEF Sections

\* A key of the schema is listed exactly when Get finds it.
LEMMA SchemaHas ==
    ASSUME NEW d, NEW q \in Schema
    PROVE  q \in ListKeys(d) <=> Has(d, q)
<1>1. PICK s, n : q = <<s, n>> /\ (s \in Sections \/ (s = Top /\ n = "LogLevel"))
  BY SchemaPair
<1>2. CASE s = Top /\ n = "LogLevel"
  <2>1. <<s, n>> \in ListKeys(d) <=> n \in DOMAIN d
    BY <1>2, KeysAre, NamesApart, TopIs
  <2>2. Has(d, <<s, n>>) <=> n \in DOMAIN d
    BY <1>2, HasAtTop
  <2> QED
    BY <1>1, <2>1, <2>2
<1>3. CASE s \in Sections
  <2>1. s # Top /\ s # "Seed"
    BY <1>3, TopIs, NamesApart
  <2>2. <<s, n>> \in ListKeys(d) <=>
          s \in DOMAIN d /\ d[s].kind = "object" /\ n \in DOMAIN d[s].fields
    BY <1>3, <2>1, KeysAre
  <2>3. Has(d, <<s, n>>) <=>
          s \in DOMAIN d /\ d[s].kind = "object" /\ n \in DOMAIN d[s].fields
    BY <2>1, HasIs
  <2> QED
    BY <1>1, <2>2, <2>3
<1> QED
  BY <1>1, <1>2, <1>3

\* A setting that is left was there, with the same value.
LEMMA UnsetLeaves ==
    ASSUME NEW d, NEW s, NEW n, s # "LogLevel", NEW e, e = Unset(d, <<s, n>>),
           NEW q \in Schema, Has(e, q)
    PROVE  Has(d, q) /\ Get(e, q) = Get(d, q)
<1>1. PICK t, m : q = <<t, m>> /\ (t \in Sections \/ (t = Top /\ m = "LogLevel"))
  BY SchemaPair
<1>2. CASE s = Top
  <2>1. \A x : x \in DOMAIN e => x \in DOMAIN d /\ e[x] = d[x]
    BY <1>2, UnsetAtTop
  <2>2. CASE t = Top
    <3>1. m \in DOMAIN e
      BY <1>1, <2>2, HasAtTop
    <3>2. m \in DOMAIN d /\ e[m] = d[m]
      BY <2>1, <3>1
    <3> QED
      BY <1>1, <2>2, <3>2, HasAtTop
  <2>3. CASE t # Top
    <3>1. t \in DOMAIN e /\ e[t].kind = "object" /\ m \in DOMAIN e[t].fields
      BY <1>1, <2>3, HasIs
    <3>2. t \in DOMAIN d /\ e[t] = d[t]
      BY <2>1, <3>1
    <3> QED
      BY <1>1, <2>3, <3>1, <3>2, HasIs
  <2> QED
    BY <2>2, <2>3
<1>3. CASE s # Top
  <2>1. /\ \A x : x # s => (x \in DOMAIN e <=> x \in DOMAIN d)
        /\ \A x \in DOMAIN e : x # s => e[x] = d[x]
    BY <1>3, UnsetInSection
  <2>2. s \in DOMAIN e =>
           \/ s \in DOMAIN d /\ e = d /\ d[s].kind = "null"
           \/ /\ s \in DOMAIN d /\ e[s].kind = "object" /\ d[s].kind = "object"
              /\ \A f : f \in DOMAIN e[s].fields <=> f \in DOMAIN d[s].fields /\ f # n
              /\ \A f \in DOMAIN e[s].fields : e[s].fields[f] = d[s].fields[f]
    BY <1>3, UnsetInSection
  <2>3. CASE t = Top /\ (m # s \/ m \notin DOMAIN e)
    <3>1. m \in DOMAIN e
      BY <1>1, <2>3, HasAtTop
    <3>2. m \in DOMAIN d /\ e[m] = d[m]
      BY <2>1, <2>3, <3>1
    <3> QED
      BY <1>1, <2>3, <3>2, HasAtTop
  <2>4. CASE t # Top /\ t # s
    <3>1. t \in DOMAIN e /\ e[t].kind = "object" /\ m \in DOMAIN e[t].fields
      BY <1>1, <2>4, HasIs
    <3>2. t \in DOMAIN d /\ e[t] = d[t]
      BY <2>1, <2>4, <3>1
    <3> QED
      BY <1>1, <2>4, <3>1, <3>2, HasIs
  <2>5. CASE t # Top /\ t = s
    <3>1. s \in DOMAIN e /\ e[s].kind = "object" /\ m \in DOMAIN e[s].fields /\ Get(e, q) = e[s].fields[m]
      BY <1>1, <2>5, HasIs
    <3>2. CASE e = d
      BY <3>2
    <3>3. CASE e # d
      <4>1. /\ s \in DOMAIN d /\ d[s].kind = "object"
            /\ m \in DOMAIN d[s].fields /\ e[s].fields[m] = d[s].fields[m]
        BY <2>2, <3>1, <3>3
      <4> QED
        BY <1>1, <2>5, <3>1, <4>1, HasIs
    <3> QED
      BY <3>2, <3>3
  <2>6. ~(t = Top /\ m = s)
    BY <1>1, NamesApart, TopIs
  <2> QED
    BY <2>3, <2>4, <2>5, <2>6
<1> QED
  BY <1>2, <1>3

\* A key that is there is one of a document, and names no section "LogLevel".
LEMMA KeySection ==
    ASSUME NEW d, NEW k \in ListKeys(d)
    PROVE  \E s, n : k = <<s, n>> /\ s # "LogLevel"
<1>1. k = <<k[1], k[2]>>
  BY KeysArePairs
<1>2. k[1] \in Sections \/ k[1] = Top \/ k[1] = "Seed"
  <2>1. PICK s, n : k = <<s, n>> /\ s = k[1]
    BY <1>1
  <2>2. s \in Sections \/ s = Top \/ s = "Seed"
    BY <2>1, KeysAre
  <2> QED
    BY <2>1, <2>2
<1>3. k[1] # "LogLevel"
  <2>1. "LogLevel" # Top
    BY Zenon DEF Top
  <2> QED
    BY <1>2, <2>1, NamesApart
<1> QED
  BY <1>1, <1>3, Zenon

\* What was an object or null is not replaced by something else.
LEMMA UnsetBreaksNone ==
    ASSUME NEW d, NEW s, NEW n, NEW e, e = Unset(d, <<s, n>>),
           NEW t, ~Broken(d, t)
    PROVE  ~Broken(e, t)
<1>1. CASE s = Top
  <2>1. \A x : x \in DOMAIN e => x \in DOMAIN d /\ e[x] = d[x]
    BY <1>1, UnsetAtTop
  <2> QED
    BY <2>1 DEF Broken
<1>2. CASE s # Top
  <2>1. /\ \A x : x # s => (x \in DOMAIN e <=> x \in DOMAIN d)
        /\ \A x \in DOMAIN e : x # s => e[x] = d[x]
        /\ s \in DOMAIN e => e = d \/ e[s].kind = "object"
    BY <1>2, UnsetInSection
  <2> QED
    BY <2>1 DEF Broken
<1> QED
  BY <1>1, <1>2

LEMMA ClassIs ==
    ASSUME NEW q \in Schema
    PROVE  Class[q] \in {"bool", "port", "count", "level", "host", "string", "list"}
<1>1. Class[q] = [LogLevel |-> "level", EnableHTTP |-> "bool", HTTPHost |-> "host",
         HTTPPort |-> "port", HTTPCors |-> "list", MinPeers |-> "count",
         MaxPeers |-> "count", Address |-> "string"][q[2]]
  BY DEF Class
<1>2. q[2] \in {"LogLevel", "EnableHTTP", "HTTPHost", "HTTPPort", "HTTPCors",
                "MinPeers", "MaxPeers", "Address"}
  BY DEF Schema
<1> QED
  BY <1>1, <1>2

\* A value that fits goes on fitting when a key is removed: the bound of
\* MaxPeers is the MinPeers that is left, or none.
LEMMA FitsStill ==
    ASSUME NEW d, NEW e, NEW q \in Schema, NEW v, Fits(d, q, v),
           Has(e, MinPeers) => Has(d, MinPeers) /\ Get(e, MinPeers) = Get(d, MinPeers)
    PROVE  Fits(e, q, v)
<1>1. (q = MaxPeers /\ Has(d, MinPeers) /\ Get(d, MinPeers).kind = "int"
         => v.num >= Get(d, MinPeers).num) =>
      (q = MaxPeers /\ Has(e, MinPeers) /\ Get(e, MinPeers).kind = "int"
         => v.num >= Get(e, MinPeers).num)
  OBVIOUS
<1>2. CASE Class[q] = "count"
  BY <1>1, <1>2 DEF Fits
<1>3. CASE Class[q] = "bool"
  BY <1>3 DEF Fits
<1>4. CASE Class[q] = "port"
  BY <1>4 DEF Fits
<1>5. CASE Class[q] = "level"
  BY <1>5 DEF Fits
<1>6. CASE Class[q] = "host"
  BY <1>6 DEF Fits
<1>7. CASE Class[q] = "string"
  BY <1>7 DEF Fits
<1>8. CASE Class[q] = "list"
  BY <1>8 DEF Fits
<1> QED
  BY <1>2, <1>3, <1>4, <1>5, <1>6, <1>7, <1>8, ClassIs

\* Every check of Validate goes on holding.
LEMMA UnsetValid ==
    ASSUME NEW d, Validate(d), NEW k \in ListKeys(d)
    PROVE  Validate(Unset(d, k))
<1> DEFINE e == Unset(d, k)
<1>1. PICK s, n : k = <<s, n>> /\ s # "LogLevel"
  BY KeySection
<1>2. e = Unset(d, <<s, n>>)
  BY <1>1
<1> HIDE DEF e
<1>3. ASSUME NEW t \in Sections PROVE ~Broken(e, t)
  <2>1. ~Broken(d, t)
    BY DEF Validate
  <2> QED
    BY <1>2, <2>1, UnsetBreaksNone
<1>4. ASSUME NEW q \in ListKeys(e) \cap Schema PROVE Fits(e, q, Get(e, q))
  <2>1. Has(e, q)
    BY SchemaHas
  <2>2. Has(d, q) /\ Get(e, q) = Get(d, q)
    BY <1>1, <1>2, <2>1, UnsetLeaves
  <2>3. Fits(d, q, Get(d, q))
    <3>1. q \in ListKeys(d) \cap Schema
      BY <2>2, SchemaHas
    <3> QED
      BY <3>1 DEF Validate
  <2>4. MinPeers \in Schema
    BY DEF MinPeers, Schema
  <2>5. Has(e, MinPeers) => Has(d, MinPeers) /\ Get(e, MinPeers) = Get(d, MinPeers)
    BY <1>1, <1>2, <2>4, UnsetLeaves
  <2>6. Fits(e, q, Get(d, q))
    BY <2>3, <2>5, FitsStill
  <2> QED
    BY <2>2, <2>6
<1>5. Validate(e)
  BY <1>3, <1>4 DEF Validate
<1> QED
  BY <1>5 DEF e

LEMMA UnsetIsNeverRefused == UnsetNeverRefused
BY UnsetValid DEF UnsetNeverRefused

\* Has and Get, of a key as it is.
LEMMA KeyInSection ==
    ASSUME NEW d, NEW k, k[1] # Top
    PROVE  /\ Has(d, k) <=> /\ k[1] \in DOMAIN d /\ d[k[1]].kind = "object"
                            /\ k[2] \in DOMAIN d[k[1]].fields
           /\ Has(d, k) => Get(d, k) = d[k[1]].fields[k[2]]
<1>1. PICK s : s = k[1]
  OBVIOUS
<1>2. PICK n : n = k[2]
  OBVIOUS
<1>3. Has(d, k) <=> ~Broken(d, s) /\ n \in DOMAIN Members(d, s)
  BY <1>1, <1>2 DEF Has, Readable, Holder
<1>4. Get(d, k) = Members(d, s)[n]
  BY <1>1, <1>2 DEF Get, Holder
<1>5. CASE s \in DOMAIN d /\ d[s].kind = "object"
  BY <1>1, <1>2, <1>3, <1>4, <1>5 DEF Broken, Members
<1>6. CASE ~(s \in DOMAIN d /\ d[s].kind = "object")
  <2>1. Members(d, s) = <<>>
    BY <1>6 DEF Members
  <2> QED
    BY <1>1, <1>3, <1>6, <2>1, EmptyIs
<1> QED
  BY <1>5, <1>6

LEMMA KeyAtTop ==
    ASSUME NEW d, NEW k, k[1] = Top
    PROVE  (Has(d, k) <=> k[2] \in DOMAIN d) /\ Get(d, k) = d[k[2]]
BY DEF Has, Get, Readable, Holder

\* The section that is written, key by key.
LEMMA SetFills ==
    ASSUME NEW d, NEW k, k[1] # Top, NEW v
    PROVE  /\ k[1] \in DOMAIN Set(d, k, v) /\ Set(d, k, v)[k[1]].kind = "object"
           /\ \A f : f \in DOMAIN Set(d, k, v)[k[1]].fields <=>
                      f \in DOMAIN Members(d, k[1]) \/ f = k[2]
           /\ Set(d, k, v)[k[1]].fields[k[2]] = v
           /\ \A f \in DOMAIN Members(d, k[1]) :
                f # k[2] => Set(d, k, v)[k[1]].fields[f] = Members(d, k[1])[f]
<1>1. PICK filled : filled = With(Members(d, k[1]), k[2], v)
  OBVIOUS
<1>2. k[1] \in DOMAIN Set(d, k, v) /\ Set(d, k, v)[k[1]] = Object(filled)
  BY <1>1, SetInSection
<1>3. Set(d, k, v)[k[1]].kind = "object" /\ Set(d, k, v)[k[1]].fields = filled
  BY <1>2, ObjectIs
<1>4. /\ \A f : f \in DOMAIN filled <=> f \in DOMAIN Members(d, k[1]) \/ f = k[2]
      /\ filled[k[2]] = v
      /\ \A f \in DOMAIN Members(d, k[1]) : f # k[2] => filled[f] = Members(d, k[1])[f]
  BY <1>1, WithIs
<1> QED
  BY <1>2, <1>3, <1>4

\* The value set is the one read back.
LEMMA SetReads ==
    ASSUME NEW d, NEW k, NEW v
    PROVE  Get(Set(d, k, v), k) = v
<1>1. CASE k[1] = Top
  BY <1>1, SetAtTop, KeyAtTop
<1>2. CASE k[1] # Top
  <2>1. PICK e : e = Set(d, k, v)
    OBVIOUS
  <2>2. /\ k[1] \in DOMAIN e /\ e[k[1]].kind = "object"
        /\ k[2] \in DOMAIN e[k[1]].fields /\ e[k[1]].fields[k[2]] = v
    BY <1>2, <2>1, SetFills
  <2>3. Get(e, k) = v
    BY <1>2, <2>2, KeyInSection
  <2> QED
    BY <2>1, <2>3
<1> QED
  BY <1>1, <1>2

\* Every other key is as it was: all but the section itself as one key, and
\* the keys of a name that is written over.
LEMMA SetSpares ==
    ASSUME NEW d, NEW k, NEW v, NEW e, e = Set(d, k, v), Readable(d, k), NEW q,
           ~(q[1] = k[1] /\ q[2] = k[2]), ~(q[1] = Top /\ q[2] = k[1]),
           ~(k[1] = Top /\ k[2] = q[1] /\ q[1] # Top)
    PROVE  /\ Has(e, q) <=> Has(d, q)
           /\ Has(d, q) => Get(e, q) = Get(d, q)
<1>2. CASE k[1] = Top
  <2>1. /\ \A x : x \in DOMAIN e <=> x \in DOMAIN d \/ x = k[2]
        /\ \A x \in DOMAIN d : x # k[2] => e[x] = d[x]
    <3>1. e = With(d, k[2], v)
      BY <1>2 DEF Set
    <3> QED
      BY <3>1, WithIs
  <2>2. CASE q[1] = Top
    <3>1. q[2] # k[2]
      BY <1>2, <2>2
    <3>2. (q[2] \in DOMAIN e <=> q[2] \in DOMAIN d) /\ (q[2] \in DOMAIN d => e[q[2]] = d[q[2]])
      BY <2>1, <3>1
    <3> QED
      BY <2>2, <3>2, KeyAtTop
  <2>3. CASE q[1] # Top
    <3>1. q[1] # k[2]
      BY <1>2, <2>3
    <3>2. (q[1] \in DOMAIN e <=> q[1] \in DOMAIN d) /\ (q[1] \in DOMAIN d => e[q[1]] = d[q[1]])
      BY <2>1, <3>1
    <3> QED
      BY <2>3, <3>2, KeyInSection
  <2> QED
    BY <2>2, <2>3
<1>3. CASE k[1] # Top
  <2>1. /\ \A x : x \in DOMAIN e <=> x \in DOMAIN d \/ x = k[1]
        /\ \A x \in DOMAIN d : x # k[1] => e[x] = d[x]
    BY <1>3, SetInSection
  <2>2. CASE q[1] = Top
    <3>1. q[2] # k[1]
      BY <2>2
    <3>2. (q[2] \in DOMAIN e <=> q[2] \in DOMAIN d) /\ (q[2] \in DOMAIN d => e[q[2]] = d[q[2]])
      BY <2>1, <3>1
    <3> QED
      BY <2>2, <3>2, KeyAtTop
  <2>3. CASE q[1] # Top /\ q[1] # k[1]
    <3>1. (q[1] \in DOMAIN e <=> q[1] \in DOMAIN d) /\ (q[1] \in DOMAIN d => e[q[1]] = d[q[1]])
      BY <2>1, <2>3
    <3> QED
      BY <2>3, <3>1, KeyInSection
  <2>4. CASE q[1] = k[1]
    <3>1. PICK s : s = k[1]
      OBVIOUS
    <3>2. PICK m : m = q[2]
      OBVIOUS
    <3>3. m # k[2] /\ s # Top /\ q[1] = s
      BY <1>3, <2>4, <3>1, <3>2
    <3>4. /\ s \in DOMAIN e /\ e[s].kind = "object"
          /\ m \in DOMAIN e[s].fields <=> m \in DOMAIN Members(d, s)
          /\ m \in DOMAIN Members(d, s) => e[s].fields[m] = Members(d, s)[m]
      BY <1>3, <3>1, <3>3, SetFills
    <3>5. ~Broken(d, s)
      BY <1>3, <3>1 DEF Readable
    <3>6. Has(d, q) <=> m \in DOMAIN Members(d, s)
      BY <3>2, <3>3, <3>5 DEF Has, Readable, Holder
    <3>7. Get(d, q) = Members(d, s)[m]
      BY <3>2, <3>3 DEF Get, Holder
    <3>8. Has(e, q) <=> m \in DOMAIN Members(d, s)
      BY <3>2, <3>3, <3>4, KeyInSection
    <3>9. m \in DOMAIN Members(d, s) => Get(e, q) = Members(d, s)[m]
      BY <3>2, <3>3, <3>4, <3>8, KeyInSection
    <3> QED
      BY <3>6, <3>7, <3>8, <3>9
  <2> QED
    BY <2>2, <2>3, <2>4
<1> QED
  BY <1>2, <1>3

\* Every key of the command line is a pair.
LEMMA CommandKeysArePairs ==
    ASSUME NEW k \in CommandKeys
    PROVE  k = <<k[1], k[2]>> /\ ~(k[1] = Top /\ k[2] = "Seed.Nodes") /\ k[1] # "Seed.Nodes"
<1>1. CASE k \in Schema
  <2>1. k = <<k[1], k[2]>> /\ (k[1] \in Sections \/ k[1] = Top) /\ (k[1] = Top => k[2] = "LogLevel")
    BY <1>1, SchemaIs
  <2>2. Top # "Seed.Nodes" /\ "Seed.Nodes" \notin Sections
    <3>1. Top # "Seed.Nodes"
      BY Zenon DEF Top
    <3> QED
      BY <3>1 DEF Sections
  <2> QED
    BY <2>1, <2>2
<1>2. ASSUME NEW n, k = SplitName(n)
      PROVE  k = <<k[1], k[2]>> /\ ~(k[1] = Top /\ k[2] = "Seed.Nodes") /\ k[1] # "Seed.Nodes"
  <2>1. Top # "Seed.Nodes"
    BY Zenon DEF Top
  <2> QED
    BY <1>2, <2>1 DEF SplitName
<1>3. ASSUME NEW f, k = <<"RPC", f>>
      PROVE  k = <<k[1], k[2]>> /\ ~(k[1] = Top /\ k[2] = "Seed.Nodes") /\ k[1] # "Seed.Nodes"
  <2>1. Top # "RPC"
    BY Zenon DEF Top
  <2> QED
    BY <1>3, <2>1
<1>4. CASE k = <<Top, "Producer">>
  <2>1. Top # "Seed.Nodes"
    BY Zenon DEF Top
  <2> QED
    BY <1>4, <2>1
<1>5. k \in Schema \/ (\E n : k = SplitName(n)) \/ (\E f : k = <<"RPC", f>>) \/ k = <<Top, "Producer">>
  BY DEF CommandKeys
<1> QED
  BY <1>1, <1>2, <1>3, <1>4, <1>5, Zenon

LEMMA SetTouchesItsKey == SetTouchesOneKey
<1> SUFFICES ASSUME NEW k \in CommandKeys, NEW v \in {Int_(9)}, Readable(document, k),
                    NEW e, e = Set(document, k, v)
             PROVE  /\ Get(e, k) = v
                    /\ \A other \in (Schema \cup ListKeys(document)) \ {k, <<Top, k[1]>>} :
                         k = <<Top, other[1]>> \/
                         (/\ Has(e, other) = Has(document, other)
                          /\ Has(document, other) => Get(e, other) = Get(document, other))
  BY Zenon DEF SetTouchesOneKey
<1>1. k = <<k[1], k[2]>>
  BY CommandKeysArePairs
<1>3. Get(e, k) = v
  BY SetReads
<1>4. ASSUME NEW other \in (Schema \cup ListKeys(document)) \ {k, <<Top, k[1]>>},
             k # <<Top, other[1]>>
      PROVE  /\ Has(e, other) <=> Has(document, other)
             /\ Has(document, other) => Get(e, other) = Get(document, other)
  <2>1. other = <<other[1], other[2]>>
    BY <1>4, SchemaIs, KeysArePairs
  <2>2. /\ ~(other[1] = k[1] /\ other[2] = k[2])
        /\ ~(other[1] = Top /\ other[2] = k[1])
        /\ ~(k[1] = Top /\ k[2] = other[1])
    BY <1>1, <1>4, <2>1, Zenon
  <2> QED
    BY <2>2, SetSpares
<1>5. ASSUME NEW other PROVE Has(e, other) \in BOOLEAN /\ Has(document, other) \in BOOLEAN
  BY DEF Has
<1> QED
  BY <1>3, <1>4, <1>5, Zenon

\* A key is found and removed, unless it is a name with a dot at the top.
LEMMA KeyIsRemoved ==
    ASSUME NEW k \in ListKeys(document), k # <<"Seed", "Nodes">>
    PROVE  Has(document, k) /\ k \notin ListKeys(Unset(document, k))
<1>1. PICK s, n : k = <<s, n>>
  BY KeysArePairs, Zenon
<1>2. PICK e : e = Unset(document, <<s, n>>)
  OBVIOUS
<1>3. CASE /\ s \in Sections \cap DOMAIN document /\ document[s].kind = "object"
           /\ n \in DOMAIN document[s].fields
  <2>1. s # Top /\ s # "Seed"
    BY <1>3, TopIs, NamesApart
  <2>2. Has(document, <<s, n>>)
    BY <1>3, <2>1, HasIs
  <2>3. s \in DOMAIN e => \A f : f \in DOMAIN e[s].fields <=> f \in DOMAIN document[s].fields /\ f # n
    BY <1>2, <1>3, <2>1, UnsetInSection
  <2>4. <<s, n>> \notin ListKeys(e)
    BY <2>1, <2>3, KeysAre
  <2> QED
    BY <1>1, <1>2, <2>2, <2>4
<1>4. CASE s = Top /\ n \in DOMAIN document
  <2>1. Has(document, <<s, n>>)
    BY <1>4, HasAtTop
  <2>2. n \notin DOMAIN e
    BY <1>2, <1>4, UnsetAtTop
  <2>3. <<s, n>> \notin ListKeys(e)
    BY <1>4, <2>2, KeysAre, TopIs
  <2> QED
    BY <1>1, <1>2, <2>1, <2>3
<1>5. ~(s = "Seed" /\ n = "Nodes")
  BY <1>1
<1> QED
  BY <1>1, <1>3, <1>4, <1>5, KeysAre

LEMMA StrayIsRepairable ==
    ASSUME "Seed.Nodes" \notin DOMAIN document
    PROVE  StrayRepairable
<1>1. <<"Seed", "Nodes">> \notin ListKeys(document)
  BY TopIs, NamesApart, KeysAre
<1> QED
  BY <1>1, KeyIsRemoved DEF StrayRepairable, UnknownKeys

\* No command adds a name with a dot to the top of a document.
LEMMA NoDotAdded ==
    ASSUME "Seed.Nodes" \notin DOMAIN document, DocNext
    PROVE  "Seed.Nodes" \notin (DOMAIN document)'
<1>1. ASSUME NEW k \in CommandKeys, NEW text \in Words, NEW force \in BOOLEAN,
             SetConfig(k, text, force)
      PROVE  "Seed.Nodes" \notin DOMAIN document'
  <2>1. PICK v : document' = Set(document, k, v)
    BY <1>1 DEF SetConfig
  <2>2. k = <<k[1], k[2]>> /\ ~(k[1] = Top /\ k[2] = "Seed.Nodes") /\ k[1] # "Seed.Nodes"
    BY CommandKeysArePairs
  <2>3. CASE k[1] = Top
    BY <2>1, <2>2, <2>3, SetAtTop
  <2>4. CASE k[1] # Top
    BY <2>1, <2>2, <2>4, SetInSection
  <2> QED
    BY <2>3, <2>4
<1>2. ASSUME NEW k \in CommandKeys, UnsetConfig(k)
      PROVE  "Seed.Nodes" \notin DOMAIN document'
  <2>1. document' = Unset(document, k)
    BY <1>2 DEF UnsetConfig
  <2>2. k = <<k[1], k[2]>> /\ k[1] # "Seed.Nodes"
    BY CommandKeysArePairs
  <2>3. PICK s, n : k = <<s, n>> /\ s # "Seed.Nodes"
    BY <2>2, Zenon
  <2>4. CASE s = Top
    BY <2>1, <2>3, <2>4, UnsetAtTop
  <2>5. CASE s # Top
    BY <2>1, <2>3, <2>5, UnsetInSection
  <2> QED
    BY <2>4, <2>5
<1>3. ASSUME NEW e \in Edits, Edit(e)
      PROVE  "Seed.Nodes" \notin DOMAIN document'
  <2>1. document' = e
    BY <1>3 DEF Edit
  <2>2. CASE \E s \in Sections : \E v : e = With(document, s, v)
    BY <2>1, <2>2, WithIs DEF Sections
  <2>3. CASE \E n : e = Less(document, n)
    BY <2>1, <2>3, LessIs
  <2>4. (\E s \in Sections : \E v : e = With(document, s, v)) \/ (\E n : e = Less(document, n))
    BY DEF Edits
  <2> QED
    BY <2>2, <2>3, <2>4
<1>4. (DOMAIN document)' = DOMAIN document'
  OBVIOUS
<1> QED
  BY <1>1, <1>2, <1>3, <1>4, Zenon DEF DocNext

\* Nor does a file have one, unless HandNames does.
LEMMA NoDotInitially ==
    ASSUME "Seed.Nodes" \notin HandNames, document \in HandWritten
    PROVE  "Seed.Nodes" \notin DOMAIN document
<1>1. ASSUME NEW name, name # "Seed.Nodes", NEW values, NEW f \in Entry(name, values)
      PROVE  "Seed.Nodes" \notin DOMAIN f
  BY <1>1 DEF Entry, Absent, One
<1>2. ASSUME NEW f, NEW g, "Seed.Nodes" \notin DOMAIN f, "Seed.Nodes" \notin DOMAIN g
      PROVE  "Seed.Nodes" \notin DOMAIN Joined(f, g)
  BY <1>2 DEF Joined
<1>3. PICK a \in LevelsByHand, b \in RPCByHand, c \in NetByHand, d \in ProducerByHand,
           e \in NamesByHand : document = Joined(a, Joined(b, Joined(c, Joined(d, e))))
  BY DEF HandWritten
<1>4. "Seed.Nodes" \notin DOMAIN a
  BY <1>1, Zenon DEF LevelsByHand
<1>5. "Seed.Nodes" \notin DOMAIN b
  BY <1>1 DEF RPCByHand
<1>6. "Seed.Nodes" \notin DOMAIN c
  BY <1>1 DEF NetByHand
<1>7. "Seed.Nodes" \notin DOMAIN d
  BY <1>1 DEF ProducerByHand
<1>8. "Seed.Nodes" \notin DOMAIN e
  BY <1>1 DEF NamesByHand
<1> QED
  BY <1>2, <1>3, <1>4, <1>5, <1>6, <1>7, <1>8, Zenon

(***************************************************************************)
(* On every document, by whatever way it came about, `unset` leaves one    *)
(* that is as valid, `set` touches one key, and the only key of a document *)
(* that `unset` may not find is a name with a dot in it at the top, which  *)
(* split reads as another (Set, Unset, Validate, ListKeys).                *)
(***************************************************************************)
THEOREM EditsReach ==
    DocSpec => [](/\ UnsetNeverRefused /\ SetTouchesOneKey
                  /\ \A k \in UnknownKeys(document) \ {<<"Seed", "Nodes">>} :
                       Has(document, k) /\ k \notin ListKeys(Unset(document, k)))
<1>1. UnsetNeverRefused /\ SetTouchesOneKey
  BY UnsetIsNeverRefused, SetTouchesItsKey
<1>2. \A k \in UnknownKeys(document) \ {<<"Seed", "Nodes">>} :
        Has(document, k) /\ k \notin ListKeys(Unset(document, k))
  BY KeyIsRemoved DEF UnknownKeys
<1> QED
  BY <1>1, <1>2, PTL

(***************************************************************************)
(* And every stray key that is reported is one that `unset` finds and      *)
(* removes, as long as no file has a name with a dot in it at its top      *)
(* ("a file with one stray key must stay repairable").                     *)
(***************************************************************************)
THEOREM SafeEdits ==
    ASSUME "Seed.Nodes" \notin HandNames
    PROVE  DocSpec => []EditsAreSafe
<1>1. DocInit => "Seed.Nodes" \notin DOMAIN document
  BY NoDotInitially DEF DocInit
<1>2. "Seed.Nodes" \notin DOMAIN document /\ [DocNext]_docVars
        => ("Seed.Nodes" \notin DOMAIN document)'
  <2> SUFFICES ASSUME "Seed.Nodes" \notin DOMAIN document, [DocNext]_docVars
               PROVE  "Seed.Nodes" \notin (DOMAIN document)'
    OBVIOUS
  <2>1. CASE DocNext
    BY <2>1, NoDotAdded
  <2>2. CASE UNCHANGED docVars
    BY <2>2 DEF docVars
  <2> QED
    BY <2>1, <2>2
<1>3. "Seed.Nodes" \notin DOMAIN document => EditsAreSafe
  BY UnsetIsNeverRefused, SetTouchesItsKey, StrayIsRepairable DEF EditsAreSafe
<1> QED
  BY <1>1, <1>2, <1>3, PTL DEF DocSpec

-----------------------------------------------------------------------------
(* The producer's settings.                                                *)
LEMMA SameProducer ==
    ASSUME NEW d, NEW e, "Producer" \in DOMAIN e <=> "Producer" \in DOMAIN d,
           "Producer" \in DOMAIN d => e["Producer"] = d["Producer"]
    PROVE  ReservedUnchanged(d, e)
<1>1. "Producer" # Top
  BY TopIs DEF Sections
<1>2. ASSUME NEW k \in ListKeys(d) \cup ListKeys(e), IsReserved(k)
      PROVE  /\ Has(d, k) <=> Has(e, k)
             /\ Has(d, k) => Get(d, k) = Get(e, k)
  <2>1. k[1] = "Producer" \/ (k[1] = Top /\ k[2] = "Producer")
    BY <1>2 DEF IsReserved
  <2>2. CASE k[1] = "Producer"
    BY <1>1, <2>2, KeyInSection
  <2>3. CASE k[1] = Top /\ k[2] = "Producer"
    BY <2>3, KeyAtTop
  <2> QED
    BY <2>1, <2>2, <2>3
<1>3. ASSUME NEW k PROVE Has(d, k) \in BOOLEAN /\ Has(e, k) \in BOOLEAN
  BY DEF Has
<1> QED
  BY <1>2, <1>3, Zenon DEF ReservedUnchanged

\* set and unset of another key leave the producer as it is.
LEMMA SetReserves ==
    ASSUME NEW d, NEW k, k = <<k[1], k[2]>>, ~IsReserved(k), NEW v
    PROVE  ReservedUnchanged(d, Set(d, k, v))
<1>1. k[1] # "Producer" /\ ~(k[1] = Top /\ k[2] = "Producer")
  BY Zenon DEF IsReserved
<1>2. CASE k[1] = Top
  BY <1>1, <1>2, SetAtTop, SameProducer
<1>3. CASE k[1] # Top
  BY <1>1, <1>3, SetInSection, SameProducer
<1> QED
  BY <1>2, <1>3

LEMMA UnsetReserves ==
    ASSUME NEW d, NEW k, k = <<k[1], k[2]>>, ~IsReserved(k)
    PROVE  ReservedUnchanged(d, Unset(d, k))
<1>1. k[1] # "Producer" /\ ~(k[1] = Top /\ k[2] = "Producer")
  BY Zenon DEF IsReserved
<1>2. PICK s, n : k = <<s, n>> /\ s # "Producer" /\ ~(s = Top /\ n = "Producer")
  BY <1>1, Zenon
<1>3. PICK e : e = Unset(d, <<s, n>>)
  OBVIOUS
<1>4. CASE s = Top
  <2>1. n # "Producer"
    BY <1>2, <1>4
  <2>2. /\ \A m : m \in DOMAIN e <=> m \in DOMAIN d /\ m # n
        /\ \A m \in DOMAIN e : e[m] = d[m]
    BY <1>3, <1>4, UnsetAtTop
  <2> QED
    BY <1>2, <1>3, <2>1, <2>2, SameProducer
<1>5. CASE s # Top
  <2>1. /\ \A m : m # s => (m \in DOMAIN e <=> m \in DOMAIN d)
        /\ \A m \in DOMAIN e : m # s => e[m] = d[m]
    BY <1>3, <1>5, UnsetInSection
  <2> QED
    BY <1>2, <1>3, <2>1, SameProducer
<1> QED
  BY <1>4, <1>5

(***************************************************************************)
(* set and unset refuse a reserved key, and edit a document that changes   *)
(* one (IsReserved, ReservedUnchanged): between them no change of the      *)
(* document reaches a producer setting, through its section or through     *)
(* the key of its parent.                                                  *)
(***************************************************************************)
THEOREM ReservedStays == DocSpec => [][ReservedUnchanged(document, document')]_docVars
<1>1. DocNext => ReservedUnchanged(document, document')
  <2>1. ASSUME NEW k \in CommandKeys, NEW text, NEW force, SetConfig(k, text, force)
        PROVE  ReservedUnchanged(document, document')
    <3>1. PICK v : document' = Set(document, k, v)
      BY <2>1 DEF SetConfig
    <3>2. ~IsReserved(k) /\ k = <<k[1], k[2]>>
      BY <2>1, CommandKeysArePairs DEF SetConfig
    <3> QED
      BY <3>1, <3>2, SetReserves
  <2>2. ASSUME NEW k \in CommandKeys, UnsetConfig(k)
        PROVE  ReservedUnchanged(document, document')
    <3>1. document' = Unset(document, k) /\ ~IsReserved(k)
      BY <2>2 DEF UnsetConfig
    <3>2. k = <<k[1], k[2]>>
      BY CommandKeysArePairs
    <3> QED
      BY <3>1, <3>2, UnsetReserves
  <2>3. ASSUME NEW e \in Edits, Edit(e)
        PROVE  ReservedUnchanged(document, document')
    BY <2>3 DEF Edit
  <2> QED
    BY <2>1, <2>2, <2>3, Zenon DEF DocNext
<1> QED
  BY <1>1, PTL DEF DocSpec

-----------------------------------------------------------------------------
(***************************************************************************)
(* The composition.  A component that is not the one followed stays in a   *)
(* state it may start in.                                                  *)
(***************************************************************************)
LEMMA PartsStart ==
    ASSUME MCInit
    PROVE  /\ FilesInit /\ UpgradeInit /\ CheckInit /\ TimerInit /\ RulesInit
           /\ InstallInit
BY DEF MCInit, FilesRest, UpgradeRest, CheckRest, RulesRest, InstallRest

\* A step is one of the component followed, and stutters for the others.
LEMMA PartsStep ==
    ASSUME [MCNext]_mcVars
    PROVE  /\ [FilesNext]_filesVars /\ [UpgradeNext]_upVars /\ [CheckNext]_checkVars
           /\ [TimerNext]_timerVars /\ [RulesNext]_rulesVars /\ [InstallNext]_installVars
           /\ [focus = "document" /\ DocNext]_docVars /\ UNCHANGED focus
<1>1. CASE UNCHANGED mcVars
  BY <1>1, Zenon DEF mcVars
<1>2. CASE MCNext
  BY <1>2, Zenon DEF MCNext
<1> QED
  BY <1>1, <1>2

(***************************************************************************)
(* Whichever component a host's commands are for, each does on it what its *)
(* own specification lets it do, and no more.                              *)
(***************************************************************************)
THEOREM PartsAreTheirOwn ==
    MCSpec => FilesSpec /\ UpgradeSpec /\ CheckSpec /\ TimerSpec /\ RulesSpec /\ InstallSpec
<1>1. MCInit => /\ FilesInit /\ UpgradeInit /\ CheckInit /\ TimerInit /\ RulesInit
                /\ InstallInit
  BY PartsStart
<1>2. [MCNext]_mcVars =>
         /\ [FilesNext]_filesVars /\ [UpgradeNext]_upVars /\ [CheckNext]_checkVars
         /\ [TimerNext]_timerVars /\ [RulesNext]_rulesVars /\ [InstallNext]_installVars
  BY PartsStep
<1> QED
  BY <1>1, <1>2, PTL
     DEF MCSpec, FilesSpec, UpgradeSpec, CheckSpec, TimerSpec, RulesSpec, InstallSpec

(***************************************************************************)
(* What the components keep on a host has its type: files and archives,    *)
(* binaries and units, cached answers, schedules and the stack's pieces.   *)
(***************************************************************************)
THEOREM PartsTypes ==
    ASSUME Addrs # {}
    PROVE  MCSpec => []PartsTypeOK
<1>1. FilesTypeOK /\ UpgradeTypeOK /\ CheckTypeOK /\ TimerTypeOK /\ InstallTypeOK => PartsTypeOK
  BY DEF PartsTypeOK
<1> QED
  BY <1>1, PartsAreTheirOwn, FilesTypes, UpgradeTypes, CheckTypesHold, TimerTypes, StackTypes, PTL

(***************************************************************************)
(* Every document the commands come to is safe to edit: `unset` is never   *)
(* refused and `set` touches one key, whatever was forced in before, and a *)
(* stray key stays repairable (setConfigValue, unsetConfigValue, Edit).    *)
(***************************************************************************)
THEOREM EveryEdit ==
    ASSUME "Seed.Nodes" \notin HandNames
    PROVE  MCSpec => []EveryEditIsSafe
<1> DEFINE NoDot == focus = "document" => "Seed.Nodes" \notin DOMAIN document
<1>1. MCInit => NoDot
  BY NoDotInitially DEF MCInit, DocInit
<1>2. NoDot /\ [MCNext]_mcVars => NoDot'
  <2> SUFFICES ASSUME NoDot, [MCNext]_mcVars, focus' = "document"
               PROVE  "Seed.Nodes" \notin (DOMAIN document)'
    BY DEF NoDot
  <2>1. focus = "document" /\ [focus = "document" /\ DocNext]_docVars
    BY PartsStep
  <2>2. CASE DocNext
    BY <2>1, <2>2, NoDotAdded
  <2>3. CASE UNCHANGED docVars
    BY <2>1, <2>3 DEF docVars
  <2> QED
    BY <2>1, <2>2, <2>3
<1>3. NoDot => EveryEditIsSafe
  BY UnsetIsNeverRefused, SetTouchesItsKey, StrayIsRepairable DEF EditsAreSafe, EveryEditIsSafe
<1> QED
  BY <1>1, <1>2, <1>3, PTL DEF MCSpec
=============================================================================
