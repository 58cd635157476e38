------------------------------- MODULE Authz -------------------------------
(***************************************************************************)
(* LDAP groups and the bucket permissions they grant                       *)
(* (internal/authz/authz.go).                                              *)
(*                                                                         *)
(* Names are compared without regard to case and are given here in their   *)
(* folded, trimmed form.  A group or a bucket name is split where the code *)
(* splits it, at its first hyphen: a group is its namespace and the        *)
(* sequence of characters after the hyphen, a bucket is <<namespace>> or   *)
(* <<namespace, rest>>.  A permission mask is a set of letters.            *)
(***************************************************************************)
EXTENDS Naturals, Sequences, SequencesExt

PermRead == "r"
PermWrite == "w"
PermCreateBucket == "c"
PermDeleteObject == "d"
PermDeleteBucket == "b"

PermLetters ==
    {PermRead, PermWrite, PermCreateBucket, PermDeleteObject, PermDeleteBucket}

AllBucketsReadGroup == [namespace |-> "s3gateway", letters |-> <<"a", "l", "l", "-", "r">>]

AllBucketsPrefix == "*"

(* ParseGroup returns ok.  One unknown letter makes the group invalid, and *)
(* the wildcard prefix is not available through the ordinary grammar.      *)
ValidGroup(g) ==
    \/ g = AllBucketsReadGroup
    \/ /\ g.namespace \notin {"", AllBucketsPrefix}
       /\ g.letters # <<>>
       /\ ToSet(g.letters) \subseteq PermLetters

ParseGroup(g) ==
    IF g = AllBucketsReadGroup
    THEN [prefix |-> AllBucketsPrefix, perm |-> {PermRead}]
    ELSE [prefix |-> g.namespace, perm |-> ToSet(g.letters) \cap PermLetters]

RulesFromGroups(groups) ==
    LET parsed == {ParseGroup(g) : g \in {h \in groups : ValidGroup(h)}}
    IN  {[prefix |-> p, perm |-> UNION {r.perm : r \in {q \in parsed : q.prefix = p}}] :
             p \in {q.prefix : q \in parsed}}

(* A name that begins with a hyphen is a namespace of its own, which no    *)
(* group can name.                                                         *)
BucketNamespace(bucket) == IF bucket[1] = "" /\ Len(bucket) > 1 THEN "-" ELSE bucket[1]

BucketPerm(rules, bucket) ==
    UNION ({r.perm \cap {PermRead} : r \in {q \in rules : q.prefix = AllBucketsPrefix}}
           \cup {r.perm : r \in {q \in rules : /\ q.prefix # AllBucketsPrefix
                                               /\ q.prefix = BucketNamespace(bucket)}})

CanRead(rules, bucket) == PermRead \in BucketPerm(rules, bucket)

CanReadAll(rules) == \E r \in rules : r.prefix = AllBucketsPrefix /\ PermRead \in r.perm

CanWrite(rules, bucket) == PermWrite \in BucketPerm(rules, bucket)

CanConfigure(rules, bucket) == PermCreateBucket \in BucketPerm(rules, bucket)

CanCreateBucket(rules, bucket) == CanConfigure(rules, bucket)

CanDeleteObject(rules, bucket) == PermDeleteObject \in BucketPerm(rules, bucket)

CanDeleteBucket(rules, bucket) == PermDeleteBucket \in BucketPerm(rules, bucket)
=============================================================================
