----------------------------- MODULE Documents -----------------------------
(***************************************************************************)
(* The XML documents whose loss of a detail would delete objects the       *)
(* client did not name: the lifecycle configuration of a bucket            *)
(* (internal/server/handlers_lifecycle.go, handlers_lifecycle_xml.go) and  *)
(* the body of DeleteObjects (handlers_object.go).                         *)
(*                                                                         *)
(* An element has a name, its children in order and, for a text field, its *)
(* value in a sequence of length one; "own" says that it is in the         *)
(* document's namespace and has no foreign attribute.  Prefixes, tags,     *)
(* keys and identifiers are sequences of characters, because blanks in     *)
(* them matter; sizes and days are numbers, a date is its number of        *)
(* milliseconds (negative: a text no format parses), statuses and storage  *)
(* classes are folded names.  An optional value is a sequence of length    *)
(* zero or one, and a struct of optional scalars is a function on the      *)
(* fields that are set.                                                    *)
(***************************************************************************)
EXTENDS Integers, Sequences, SequencesExt

CONSTANTS
    MaxRules,       \* maxLifecycleRules
    MaxTransitions, \* maxLifecycleTransitionsPerRule
    MaxTags,        \* maxLifecycleTagsPerAnd
    MaxRunes,       \* length limit of prefixes, tag keys, tag values, rule IDs
    MaxObjects      \* maxDeleteObjects

Element(name, kids) == [name |-> name, own |-> TRUE, kids |-> kids, text |-> <<>>]

Field(name, value) == [name |-> name, own |-> TRUE, kids |-> <<>>, text |-> <<value>>]

Blank == " "

(* strings.TrimSpace.                                                      *)
TrimSpace(s) ==
    LET solid == {i \in DOMAIN s : s[i] # Blank}
    IN  IF solid = {} THEN <<>>
        ELSE SubSeq(s, CHOOSE i \in solid : \A j \in solid : i <= j,
                       CHOOSE i \in solid : \A j \in solid : i >= j)

(* encoding/xml fills a slice with all the children of a name, in order,   *)
(* and any other field with the last of them.                              *)
All(e, name) == SelectSeq(e.kids, LAMBDA k : k.name = name)

Has(e, name) == \E i \in DOMAIN e.kids : e.kids[i].name = name

Child(e, name) == Last(All(e, name))

Value(e, name) == Child(e, name).text[1]

Scalars(e, names) == [f \in {n \in names : Has(e, n)} |-> Value(e, f)]

Optional(e, name, Decode(_)) == IF Has(e, name) THEN <<Decode(Child(e, name))>> ELSE <<>>

OptionalValid(e, name, Valid(_)) == Has(e, name) => Valid(Child(e, name))

Each(s, Op(_)) == [i \in DOMAIN s |-> Op(s[i])]

EachValid(s, Valid(_)) == \A i \in DOMAIN s : Valid(s[i])

-----------------------------------------------------------------------------
(* The element whitelists.  TRUE: the child may repeat.                    *)

lifecycleXMLChildren ==
    [LifecycleConfiguration |-> [Rule |-> TRUE],
     Rule |-> [ID |-> FALSE, Status |-> FALSE, Prefix |-> FALSE, Filter |-> FALSE,
               Expiration |-> FALSE, Transition |-> TRUE,
               NoncurrentVersionTransition |-> TRUE,
               NoncurrentVersionExpiration |-> FALSE,
               AbortIncompleteMultipartUpload |-> FALSE],
     Filter |-> [Prefix |-> FALSE, Tag |-> FALSE, And |-> FALSE,
                 ObjectSizeGreaterThan |-> FALSE, ObjectSizeLessThan |-> FALSE],
     And |-> [Prefix |-> FALSE, Tag |-> TRUE,
              ObjectSizeGreaterThan |-> FALSE, ObjectSizeLessThan |-> FALSE],
     Tag |-> [Key |-> FALSE, Value |-> FALSE],
     Expiration |-> [Days |-> FALSE, Date |-> FALSE, ExpiredObjectDeleteMarker |-> FALSE],
     Transition |-> [Days |-> FALSE, Date |-> FALSE, StorageClass |-> FALSE],
     NoncurrentVersionTransition |->
         [NoncurrentDays |-> FALSE, NewerNoncurrentVersions |-> FALSE, StorageClass |-> FALSE],
     NoncurrentVersionExpiration |->
         [NoncurrentDays |-> FALSE, NewerNoncurrentVersions |-> FALSE],
     AbortIncompleteMultipartUpload |-> [DaysAfterInitiation |-> FALSE]]

deleteObjectsChildren ==
    [Delete |-> [Object |-> TRUE, Quiet |-> FALSE],
     Object |-> [Key |-> FALSE, ETag |-> FALSE, VersionId |-> FALSE]]

(* Mutant: a duplicate is not noticed.                                     *)
ChildrenAllowedTwice(children, e) ==
    IF e.name \in DOMAIN children
    THEN e.text = <<>> /\ \A i \in DOMAIN e.kids : e.kids[i].name \in DOMAIN children[e.name]
    ELSE e.kids = <<>>

(* The children of e are allowed below it, the ones that may not repeat    *)
(* do not, and an element with children has no text.                       *)
ChildrenAllowed(children, e) ==
    IF e.name \in DOMAIN children
    THEN /\ e.text = <<>>
         /\ \A i \in DOMAIN e.kids :
                /\ e.kids[i].name \in DOMAIN children[e.name]
                /\ \/ children[e.name][e.kids[i].name]
                   \/ \A j \in 1..(i - 1) : e.kids[j].name # e.kids[i].name
    ELSE e.kids = <<>>

(* lifecycleXMLTokenReader passes every token of e.                        *)
RECURSIVE lifecycleTokens(_)
lifecycleTokens(e) ==
    /\ e.own
    /\ ChildrenAllowed(lifecycleXMLChildren, e)
    /\ e.name = "Tag" => Has(e, "Key") /\ Has(e, "Value")
    /\ EachValid(e.kids, lifecycleTokens)

(* deleteObjectsTokenReader passes every token of e.                       *)
RECURSIVE deleteObjectsTokens(_)
deleteObjectsTokens(e) ==
    /\ ChildrenAllowed(deleteObjectsChildren, e)
    /\ e.name \in {"ETag", "VersionId"} => TrimSpace(e.text[1]) # <<>>
    /\ EachValid(e.kids, deleteObjectsTokens)

-----------------------------------------------------------------------------
(* Lifecycle rules.  Each decoder is a pair: when it returns no error, and *)
(* what it returns.                                                        *)

StorageClasses == {"GLACIER", "STANDARD_IA"}

ValidTag(x) == Value(x, "Key") # <<>> /\ Len(Value(x, "Key")) <= MaxRunes
                                      /\ Len(Value(x, "Value")) <= MaxRunes

decodeLifecycleTag(x) == [Key |-> Value(x, "Key"), Value |-> Value(x, "Value")]

ValidPrefix(prefix) == Len(prefix) <= MaxRunes

(* Blanks in a prefix are kept.                                           *)
decodeLifecyclePrefix(prefix) == prefix

Predicates == {"Prefix", "ObjectSizeGreaterThan", "ObjectSizeLessThan"}

(* The predicates that And and Filter share.                               *)
ValidPredicates(x) ==
    /\ Has(x, "Prefix") => ValidPrefix(Value(x, "Prefix"))
    /\ \A f \in {"ObjectSizeGreaterThan", "ObjectSizeLessThan"} : Has(x, f) => Value(x, f) >= 0

decodePredicates(x) ==
    [f \in {n \in Predicates : Has(x, n)} |->
        IF f = "Prefix" THEN decodeLifecyclePrefix(Value(x, f)) ELSE Value(x, f)]

ValidAnd(x) ==
    /\ ValidPredicates(x)
    /\ Has(x, "ObjectSizeGreaterThan") /\ Has(x, "ObjectSizeLessThan") =>
           Value(x, "ObjectSizeGreaterThan") < Value(x, "ObjectSizeLessThan")
    /\ Len(All(x, "Tag")) <= MaxTags
    /\ EachValid(All(x, "Tag"), ValidTag)
    /\ \E n \in Predicates \cup {"Tag"} : Has(x, n)

decodeLifecycleAnd(x) ==
    decodePredicates(x) @@ [Tags |-> Each(All(x, "Tag"), decodeLifecycleTag)]

ValidFilter(x) ==
    /\ ValidPredicates(x)
    /\ OptionalValid(x, "Tag", ValidTag)
    /\ OptionalValid(x, "And", ValidAnd)
    /\ \A m, n \in Predicates \cup {"Tag", "And"} : Has(x, m) /\ Has(x, n) => m = n

decodeLifecycleFilter(x) ==
    decodePredicates(x)
        @@ (IF Has(x, "Tag") THEN [Tag |-> decodeLifecycleTag(Child(x, "Tag"))] ELSE <<>>)
        @@ (IF Has(x, "And") THEN [And |-> decodeLifecycleAnd(Child(x, "And"))] ELSE <<>>)

ExpirationFields == {"Days", "Date", "ExpiredObjectDeleteMarker"}

ValidExpiration(x) ==
    /\ Has(x, "Days") => Value(x, "Days") > 0
    /\ Has(x, "Date") => Value(x, "Date") >= 0
    /\ \E f \in ExpirationFields : Has(x, f)
    /\ Has(x, "ExpiredObjectDeleteMarker") => ~ Has(x, "Days") /\ ~ Has(x, "Date")

decodeLifecycleExpiration(x) == Scalars(x, ExpirationFields)

ValidTransition(x) ==
    /\ Has(x, "Days") => Value(x, "Days") >= 0
    /\ Has(x, "Date") => Value(x, "Date") >= 0
    /\ Has(x, "Days") # Has(x, "Date")
    /\ Has(x, "StorageClass") /\ Value(x, "StorageClass") \in StorageClasses

decodeLifecycleTransition(x) == Scalars(x, {"Days", "Date", "StorageClass"})

ValidNoncurrentTransition(x) ==
    /\ Has(x, "NoncurrentDays") /\ Value(x, "NoncurrentDays") > 0
    /\ Has(x, "NewerNoncurrentVersions") => Value(x, "NewerNoncurrentVersions") > 0
    /\ Has(x, "StorageClass") /\ Value(x, "StorageClass") \in StorageClasses

decodeLifecycleNoncurrentTransition(x) ==
    Scalars(x, {"NoncurrentDays", "NewerNoncurrentVersions", "StorageClass"})

ValidNoncurrentExpiration(x) ==
    /\ \A f \in {"NoncurrentDays", "NewerNoncurrentVersions"} : Has(x, f) => Value(x, f) > 0
    /\ Has(x, "NoncurrentDays") \/ Has(x, "NewerNoncurrentVersions")

decodeLifecycleNoncurrentExpiration(x) ==
    Scalars(x, {"NoncurrentDays", "NewerNoncurrentVersions"})

ValidAbort(x) == Has(x, "DaysAfterInitiation") /\ Value(x, "DaysAfterInitiation") > 0

decodeLifecycleAbort(x) == Scalars(x, {"DaysAfterInitiation"})

ValidRule(x) ==
    /\ Has(x, "Status") /\ Value(x, "Status") \in {"enabled", "disabled"}
    /\ Has(x, "ID") => Len(TrimSpace(Value(x, "ID"))) <= MaxRunes
    /\ ~ (Has(x, "Prefix") /\ Has(x, "Filter"))
    /\ OptionalValid(x, "Filter", ValidFilter)
    /\ Has(x, "Prefix") => ValidPrefix(Value(x, "Prefix"))
    /\ OptionalValid(x, "Expiration", ValidExpiration)
    /\ Len(All(x, "Transition")) <= MaxTransitions
    /\ EachValid(All(x, "Transition"), ValidTransition)
    /\ Len(All(x, "NoncurrentVersionTransition")) <= MaxTransitions
    /\ EachValid(All(x, "NoncurrentVersionTransition"), ValidNoncurrentTransition)
    /\ OptionalValid(x, "NoncurrentVersionExpiration", ValidNoncurrentExpiration)
    /\ OptionalValid(x, "AbortIncompleteMultipartUpload", ValidAbort)

(* The prefix of the rule itself, the old form, becomes a filter.          *)
decodeRule(x) ==
    [Status |-> Value(x, "Status"),
     ID |-> IF Has(x, "ID") THEN TrimSpace(Value(x, "ID")) ELSE <<>>,
     Filter |-> IF Has(x, "Prefix")
                THEN <<[Prefix |-> decodeLifecyclePrefix(Value(x, "Prefix"))]>>
                ELSE Optional(x, "Filter", decodeLifecycleFilter),
     LegacyPrefix |-> <<>>,
     Expiration |-> Optional(x, "Expiration", decodeLifecycleExpiration),
     Transitions |-> Each(All(x, "Transition"), decodeLifecycleTransition),
     NoncurrentVersionTransitions |->
         Each(All(x, "NoncurrentVersionTransition"), decodeLifecycleNoncurrentTransition),
     NoncurrentVersionExpiration |->
         Optional(x, "NoncurrentVersionExpiration", decodeLifecycleNoncurrentExpiration),
     Abort |-> Optional(x, "AbortIncompleteMultipartUpload", decodeLifecycleAbort)]

ValidLifecycle(doc) ==
    /\ doc.name = "LifecycleConfiguration"
    /\ lifecycleTokens(doc)
    /\ Len(All(doc, "Rule")) \in 1..MaxRules
    /\ EachValid(All(doc, "Rule"), ValidRule)

decodeLifecycleConfigXML(doc) == Each(All(doc, "Rule"), decodeRule)

-----------------------------------------------------------------------------
(* The reverse direction.  A nil pointer is no element; a struct that is   *)
(* set but empty is an empty element.                                      *)

EncodeScalars(r, names) ==
    LET set == SelectSeq(names, LAMBDA n : n \in DOMAIN r)
    IN  Each(set, LAMBDA n : Field(n, r[n]))

EncodeOptional(name, o, Encode(_)) ==
    IF o = <<>> THEN <<>> ELSE <<Element(name, Encode(o[1]))>>

EncodeAll(name, s, Encode(_)) == Each(s, LAMBDA r : Element(name, Encode(r)))

encodeLifecycleTag(t) == <<Field("Key", t.Key), Field("Value", t.Value)>>

encodeLifecycleAnd(a) ==
    EncodeScalars(a, <<"Prefix", "ObjectSizeGreaterThan", "ObjectSizeLessThan">>)
        \o EncodeAll("Tag", a.Tags, encodeLifecycleTag)

encodeLifecycleFilter(f) ==
    EncodeScalars(f, <<"Prefix", "ObjectSizeGreaterThan", "ObjectSizeLessThan">>)
        \o (IF "Tag" \in DOMAIN f THEN <<Element("Tag", encodeLifecycleTag(f.Tag))>> ELSE <<>>)
        \o (IF "And" \in DOMAIN f THEN <<Element("And", encodeLifecycleAnd(f.And))>> ELSE <<>>)

encodeLifecycleExpiration(x) == EncodeScalars(x, <<"Days", "Date", "ExpiredObjectDeleteMarker">>)

encodeLifecycleTransition(x) == EncodeScalars(x, <<"Date", "Days", "StorageClass">>)

encodeLifecycleNoncurrentTransition(x) ==
    EncodeScalars(x, <<"NoncurrentDays", "NewerNoncurrentVersions", "StorageClass">>)

encodeLifecycleNoncurrentExpiration(x) ==
    EncodeScalars(x, <<"NoncurrentDays", "NewerNoncurrentVersions">>)

encodeLifecycleAbort(x) == EncodeScalars(x, <<"DaysAfterInitiation">>)

(* Mutant: the old form of a rule's prefix is not looked for.              *)
FilterOnly(r) == r.Filter

(* lifecycleRuleLegacyPrefix: a rule stored by another tool may have a     *)
(* prefix instead of a filter.                                             *)
FilterOrLegacyPrefix(r) ==
    IF r.Filter = <<>> /\ r.LegacyPrefix # <<>>
    THEN <<[Prefix |-> r.LegacyPrefix[1]]>>
    ELSE r.Filter

encodeRule(r) ==
    Element("Rule",
        (IF r.ID = <<>> THEN <<>> ELSE <<Field("ID", r.ID)>>)
        \o <<Field("Status", r.Status)>>
        \o EncodeOptional("Filter", FilterOrLegacyPrefix(r), encodeLifecycleFilter)
        \o EncodeOptional("Expiration", r.Expiration, encodeLifecycleExpiration)
        \o EncodeAll("Transition", r.Transitions, encodeLifecycleTransition)
        \o EncodeAll("NoncurrentVersionTransition", r.NoncurrentVersionTransitions,
                     encodeLifecycleNoncurrentTransition)
        \o EncodeOptional("NoncurrentVersionExpiration", r.NoncurrentVersionExpiration,
                          encodeLifecycleNoncurrentExpiration)
        \o EncodeOptional("AbortIncompleteMultipartUpload", r.Abort, encodeLifecycleAbort))

encodeLifecycleConfigXML(rules) == Element("LifecycleConfiguration", Each(rules, encodeRule))

-----------------------------------------------------------------------------
(* DeleteObjects.                                                          *)

Conditions == {"VersionId", "ETag"}

ValidDelete(doc) ==
    /\ doc.name = "Delete"
    /\ deleteObjectsTokens(doc)
    /\ Len(All(doc, "Object")) \in 1..MaxObjects
    /\ EachValid(All(doc, "Object"), LAMBDA x : Has(x, "Key") /\ Value(x, "Key") # <<>>)

(* The identifiers handleDeleteObjects sends upstream.                     *)
ObjectIdentifiers(doc) ==
    Each(All(doc, "Object"),
         LAMBDA x : [f \in {n \in Conditions \cup {"Key"} : Has(x, n)} |->
                        IF f = "Key" THEN Value(x, f) ELSE TrimSpace(Value(x, f))])

-----------------------------------------------------------------------------
(* What a stored rule selects upstream.                                    *)

Holds(predicate, value, o) ==
    CASE predicate = "Prefix"                -> IsPrefix(value, o.key)
      [] predicate = "Tag"                   -> value \in o.tags
      [] predicate = "ObjectSizeGreaterThan" -> o.size > value
      [] predicate = "ObjectSizeLessThan"    -> o.size < value

AndSelects(a, o) ==
    /\ \A p \in DOMAIN a \cap Predicates : Holds(p, a[p], o)
    /\ \A i \in DOMAIN a.Tags : Holds("Tag", a.Tags[i], o)

FilterSelects(f, o) ==
    /\ \A p \in DOMAIN f \cap (Predicates \cup {"Tag"}) : Holds(p, f[p], o)
    /\ "And" \in DOMAIN f => AndSelects(f.And, o)

Selects(r, o) ==
    /\ \A i \in DOMAIN r.Filter : FilterSelects(r.Filter[i], o)
    /\ \A i \in DOMAIN r.LegacyPrefix : Holds("Prefix", r.LegacyPrefix[i], o)

(* What the client wrote: every predicate that occurs anywhere in a rule   *)
(* is meant to hold.                                                       *)
RECURSIVE WrittenSelects(_, _)
WrittenSelects(e, o) ==
    CASE e.name \in Predicates -> Holds(e.name, e.text[1], o)
      [] e.name = "Tag"        -> Holds("Tag", decodeLifecycleTag(e), o)
      [] OTHER                 -> \A i \in DOMAIN e.kids : WrittenSelects(e.kids[i], o)
=============================================================================
