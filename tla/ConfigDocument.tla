--------------------------- MODULE ConfigDocument ---------------------------
(***************************************************************************)
(* config.json as internal/nodeconfig reads, checks and edits it: a        *)
(* document of names and raw values, in which the sections RPC, Net and    *)
(* Producer hold settings of their own.  The schema is represented by one  *)
(* key of each class it has.                                               *)
(***************************************************************************)
EXTENDS Integers, Functions, TLC

CONSTANTS
    Words,       \* what can be given as a value on the command line
    HandNames,   \* names a hand-written file may have at its top
    HandFields,  \* names it may have in its RPC section
    MaxChanges   \* bound on the changes made to a document

ASSUME DocAssumption == MaxChanges \in Nat

VARIABLES document, changes
docVars == <<document, changes>>

\* JSON values.
Value(kind, num, str, fields) ==
    [kind |-> kind, num |-> num, str |-> str, fields |-> fields]
NoText == ""
Int_(n) == Value("int", n, NoText, <<>>)
Bool(n) == Value("bool", n, NoText, <<>>)
Str(s) == Value("string", 0, s, <<>>)
List(s) == Value("list", 0, s, <<>>)
Null == Value("null", 0, NoText, <<>>)
Object(fields) == Value("object", 0, NoText, fields)

\* An object of one entry, and one with the entries of two; the first wins.
One(name, v) == [n \in {name} |-> v]
Joined(f, g) == [n \in DOMAIN f \cup DOMAIN g |-> IF n \in DOMAIN f THEN f[n] ELSE g[n]]

Sections == {"RPC", "Net", "Producer"}
Top == ""
\* A key is a section, or Top, and a name.
Schema ==
    {<<Top, "LogLevel">>, <<"RPC", "EnableHTTP">>, <<"RPC", "HTTPHost">>,
     <<"RPC", "HTTPPort">>, <<"RPC", "HTTPCors">>, <<"Net", "MinPeers">>,
     <<"Net", "MaxPeers">>, <<"Producer", "Address">>}
Class == [k \in Schema |->
    [LogLevel |-> "level", EnableHTTP |-> "bool", HTTPHost |-> "host",
     HTTPPort |-> "port", HTTPCors |-> "list", MinPeers |-> "count",
     MaxPeers |-> "count", Address |-> "string"][k[2]]]

IsReserved(k) == k[1] = "Producer" \/ k = <<Top, "Producer">>

\* split: the first dot of a text ends the section.
SplitName(name) == IF name = "Seed.Nodes" THEN <<"Seed", "Nodes">>
                                          ELSE <<Top, name>>

-----------------------------------------------------------------------------
Broken(d, s) == s \in DOMAIN d /\ d[s].kind \notin {"null", "object"}
Members(d, s) ==
    IF s \in DOMAIN d /\ d[s].kind = "object" THEN d[s].fields ELSE <<>>
\* Get, Set and Unset fail on a section that is no object.
Readable(d, k) == k[1] = Top \/ ~Broken(d, k[1])
Holder(d, k) == IF k[1] = Top THEN d ELSE Members(d, k[1])
Has(d, k) == Readable(d, k) /\ k[2] \in DOMAIN Holder(d, k)
Get(d, k) == Holder(d, k)[k[2]]

With(f, name, v) == Joined(One(name, v), f)
Less(f, name) == Restrict(f, DOMAIN f \ {name})

\* Mutant: the section is written anew.
SetFresh(d, k, v) ==
    IF k[1] = Top THEN With(d, k[2], v)
    ELSE With(d, k[1], Object(One(k[2], v)))
Set(d, k, v) ==
    IF k[1] = Top THEN With(d, k[2], v)
    ELSE With(d, k[1], Object(With(Members(d, k[1]), k[2], v)))

\* Mutant: the last key of a section is not removed.
UnsetKeepsLast(d, k) ==
    LET left == Less(Members(d, k[1]), k[2])
    IN  IF k[1] = Top THEN Less(d, k[2])
        ELSE IF DOMAIN left = {} THEN d
        ELSE With(d, k[1], Object(left))
Unset(d, k) ==
    LET left == Less(Members(d, k[1]), k[2])
    IN  IF k[1] = Top THEN Less(d, k[2])
        ELSE IF k[1] \notin DOMAIN d \/ d[k[1]].kind = "null" THEN d
        ELSE IF DOMAIN left = {} THEN Less(d, k[1])
        ELSE With(d, k[1], Object(left))

ListKeys(d) ==
    UNION {IF n \in Sections /\ d[n].kind = "object"
           THEN {<<n, f>> : f \in DOMAIN d[n].fields}
           ELSE {SplitName(n)} : n \in DOMAIN d}
UnknownKeys(d) == ListKeys(d) \ Schema

-----------------------------------------------------------------------------
MinPeers == <<"Net", "MinPeers">>
MaxPeers == <<"Net", "MaxPeers">>
Ports == 1 .. 65535
LogLevels == {"debug", "info", "warn"}

\* Mutant: the other side of the comparison is checked too, with its default.
FitsDefault(d, k, v) ==
    CASE Class[k] = "bool" -> v.kind = "bool"
      [] Class[k] = "port" -> v.kind = "int" /\ v.num \in Ports
      [] Class[k] = "count" ->
            /\ v.kind = "int" /\ v.num >= 0
            /\ k = MaxPeers => v.num >= IF Has(d, MinPeers)
                                        THEN Get(d, MinPeers).num ELSE 8
      [] Class[k] = "level" -> v.kind = "string" /\ v.str \in LogLevels
      [] Class[k] = "host" -> v.kind = "string" /\ v.str # NoText
      [] Class[k] = "string" -> v.kind = "string"
      [] Class[k] = "list" -> v.kind = "list" /\ v.str # "mixed"
\* checkValue.
Fits(d, k, v) ==
    CASE Class[k] = "bool" -> v.kind = "bool"
      [] Class[k] = "port" -> v.kind = "int" /\ v.num \in Ports
      [] Class[k] = "count" ->
            /\ v.kind = "int" /\ v.num >= 0
            /\ (k = MaxPeers /\ Has(d, MinPeers) /\ Get(d, MinPeers).kind = "int")
                 => v.num >= Get(d, MinPeers).num
      [] Class[k] = "level" -> v.kind = "string" /\ v.str \in LogLevels
      [] Class[k] = "host" -> v.kind = "string" /\ v.str # NoText
      [] Class[k] = "string" -> v.kind = "string"
      [] Class[k] = "list" -> v.kind = "list" /\ v.str # "mixed"

Validate(d) ==
    /\ \A s \in Sections : ~Broken(d, s)
    /\ \A k \in ListKeys(d) \cap Schema : Fits(d, k, Get(d, k))
ValidateStrict(d) == Validate(d) /\ UnknownKeys(d) = {}

\* fmt.Sprint: a number and the string of its digits look the same.
Shown(v) == [v EXCEPT !.kind = IF @ \in {"int", "bool"} THEN "string" ELSE @]

ReservedUnchanged(d, e) ==
    \A k \in {k \in ListKeys(d) \cup ListKeys(e) : IsReserved(k)} :
        /\ Has(d, k) = Has(e, k)
        /\ Has(d, k) => Shown(Get(d, k)) = Shown(Get(e, k))

-----------------------------------------------------------------------------
Numbers == "-1" :> -1 @@ "3" :> 3 @@ "9" :> 9 @@ "99999" :> 99999
Switches == "on" :> 1 @@ "off" :> 0

\* ParseValue, for a text that it accepts.
Parses(k, text) ==
    CASE Class[k] = "bool" -> text \in DOMAIN Switches
      [] Class[k] \in {"port", "count"} -> text \in DOMAIN Numbers
      [] OTHER -> TRUE
ParseValue(k, text) ==
    CASE Class[k] = "bool" -> Bool(Switches[text])
      [] Class[k] \in {"port", "count"} -> Int_(Numbers[text])
      [] Class[k] = "list" -> List(text)
      [] OTHER -> Str(text)

\* setConfigValue.
SetConfig(k, text, force) ==
    /\ ~IsReserved(k)
    /\ k \in Schema => Parses(k, text)
    /\ k \notin Schema => force
    /\ Readable(document, k)
    /\ document' = Set(document, k, IF k \in Schema THEN ParseValue(k, text)
                                                    ELSE Str(text))
    /\ force \/ Validate(document')

UnsetConfig(k) ==
    /\ ~IsReserved(k)
    /\ Has(document, k)
    /\ document' = Unset(document, k)
    /\ Validate(document')

Edit(e) ==
    /\ e # document
    /\ ValidateStrict(e)
    /\ ReservedUnchanged(document, e)
    /\ document' = e

-----------------------------------------------------------------------------
(* The documents and changes of a run.                                     *)

Absent == [n \in {} |-> Null]
Entry(name, values) == {Absent} \cup {One(name, v) : v \in values}
Objects(fields) == {Object(Joined(a, b)) : a \in fields[1], b \in fields[2]}

LevelsByHand == Entry("LogLevel", {Str("loud")})
RPCByHand ==
    Entry("RPC", {Null, Int_(3)} \cup
        Objects(<<Entry("HTTPPort", {Int_(99999)}),
                  UNION {Entry(f, {Str("x")}) : f \in HandFields}>>))
NetByHand == Entry("Net", Objects(<<Entry("MinPeers", {Int_(9), Str("9")}),
                                    Entry("MaxPeers", {Int_(3)})>>))
ProducerByHand == Entry("Producer", {Object(One("Address", Str("z1"))),
                                     Object(One("Address", Int_(3)))})
NamesByHand ==
    UNION {Entry(n, {Str("x"), Object(One("Nodes", Str("x")))}) : n \in HandNames}
HandWritten ==
    {Joined(a, Joined(b, Joined(c, Joined(d, e)))) :
        a \in LevelsByHand, b \in RPCByHand, c \in NetByHand,
        d \in ProducerByHand, e \in NamesByHand}

CommandKeys == Schema \cup {SplitName(n) : n \in HandNames}
                      \cup {<<"RPC", f>> : f \in HandFields}
                      \cup {<<Top, "Producer">>}

\* An edit that changes one section.
Edits ==
    {With(document, s, v) : s \in Sections, v \in {Null,
        Object(One("Address", Str("z1"))), Object(One("Address", Str("3"))),
        Object(One("MinPeers", Int_(9)))}}
    \cup {Less(document, n) : n \in DOMAIN document}

DocInit == document \in HandWritten /\ changes = 0

DocNext ==
    /\ changes < MaxChanges
    /\ changes' = changes + 1
    /\ \/ \E k \in CommandKeys, text \in Words, force \in BOOLEAN :
             SetConfig(k, text, force)
       \/ \E k \in CommandKeys : UnsetConfig(k)
       \/ \E e \in Edits : Edit(e)

DocSpec == DocInit /\ [][DocNext]_docVars

-----------------------------------------------------------------------------
(* Properties.                                                             *)

\* A setting can always be taken back: on a document that validates, `unset`
\* of any key leaves one that does, so Save never refuses it (Validate).
UnsetNeverRefused ==
    Validate(document) =>
        \A k \in ListKeys(document) : Validate(Unset(document, k))

\* "a file with one stray key must stay repairable through set/unset": each
\* key reported as unknown to znnd is one that `unset` finds and removes.
StrayRepairable ==
    \A k \in UnknownKeys(document) :
        Has(document, k) /\ k \notin ListKeys(Unset(document, k))

\* Set stores its value and leaves every other key of the document as it is,
\* whatever the section was before: absent, null, empty or holding keys
\* nomctl does not know.
SetTouchesOneKey ==
    \A k \in CommandKeys, v \in {Int_(9)} : Readable(document, k) =>
        LET after == Set(document, k, v)
        IN  /\ Get(after, k) = v
            /\ \A other \in (Schema \cup ListKeys(document)) \ {k, <<Top, k[1]>>} :
                 k = <<Top, other[1]>> \/
                 (/\ Has(after, other) = Has(document, other)
                  /\ Has(document, other) => Get(after, other) = Get(document, other))

\* What set, unset and edit rely on, of every document they can be given.
EditsAreSafe == UnsetNeverRefused /\ StrayRepairable /\ SetTouchesOneKey
=============================================================================
