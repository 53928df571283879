----------------------------- MODULE TrustBundle -----------------------------
(***************************************************************************)
(* ca-bundle: the p11-kit trust file of the ca-certificates rpm, read line *)
(* by line (parseP11Kit), and the certificates it anchors for servers at   *)
(* the lockfile's snapshot (extractServerAnchors).  A usage restriction is *)
(* an object of its own that names a certificate by its public key, and    *)
(* may stand before or after it.                                           *)
(*                                                                         *)
(* A line is a record that says how the reader tells it apart.  The class  *)
(* and object-id attributes are one, `class`; days are numbers; DER is the *)
(* sequence of its fields, and a certificate's end with its key: nothing   *)
(* reads further.                                                          *)
(***************************************************************************)
EXTENDS Integers, Sequences, SequencesExt, Sorting

CONSTANTS
    Objects,      \* bound: the objects a trust file is put together from
    MaxObjects,   \* bound
    Now,          \* --now-file, a day
    Lifetime      \* maxLeafLifetime

\* How many fields a certificate has, up to its key.
Whole(der) == IF der[1] = "version" THEN 7 ELSE 6

\* What p11-kit writes: each object has one block, a certificate or the public
\* key that the object is about.
BundleAssumption ==
    /\ MaxObjects \in Nat /\ Now \in Nat /\ Lifetime \in Nat
    /\ \A o \in Objects :
        /\ o.trusted \in BOOLEAN /\ o.distrusted \in BOOLEAN
        /\ o.after.form \in {"unset", "date", "unquoted"} /\ o.after.day \in Nat
        /\ o.flaw \in {"none", "bare", "open"}
        /\ o.pem = [type |-> o.pem.type, der |-> o.pem.der] /\ o.pem.der \in Seq(STRING)
        /\ IF o.class = "certificate"
           THEN /\ o.pem.type = "CERTIFICATE"
                /\ o.pem.der # <<>> => Len(o.pem.der) <= Whole(o.pem.der)
           ELSE o.pem.type = "PUBLIC KEY" /\ Len(o.pem.der) <= 1

VARIABLES
    source,       \* the objects the file was written from
    at,           \* the next line: of which object's text, and which of its lines
    objects,
    pemLines,     \* the PEM block being read; <<>> outside one
    bundle,       \* certificates, in order
    pc            \* "parse", "extract", then "done" or "failed"

vars == <<source, at, objects, pemLines, bundle, pc>>

-----------------------------------------------------------------------------
(* The file *)

Attr(key, value) == [kind |-> "attr", key |-> key, value |-> value]

\* What may follow the attributes and should not: a line without a colon, a block
\* without an end.
Flaws ==
    [none |-> <<>>, bare |-> << [kind |-> "bare"] >>,
     open |-> << [kind |-> "begin", type |-> "CERTIFICATE"] >>]

Text(o) ==
    << [kind |-> "header"], Attr("class", o.class), Attr("trusted", o.trusted),
       Attr("after", o.after),
       [kind |-> "begin", type |-> o.pem.type], [kind |-> "body", der |-> o.pem.der], [kind |-> "end"],
       [kind |-> "comment"], Attr("distrusted", o.distrusted), Attr("value", o.value) >>
    \o Flaws[o.flaw]

\* The licence and other lines ahead of the first object are passed over.
Preamble == << [kind |-> "comment"], [kind |-> "bare"] >>

\* The file: the preamble and the objects, one after the other.
Part(n) == IF n = 0 THEN Preamble ELSE Text(source[n])
AtEnd == at.part > Len(source)
Line == Part(at.part)[at.line]

-----------------------------------------------------------------------------
(* parseP11Kit *)

Fail == pc' = "failed" /\ UNCHANGED <<source, at, objects, pemLines, bundle>>

\* sc.Scan
Scan == at' = IF at.line < Len(Part(at.part)) THEN [at EXCEPT !.line = @ + 1]
              ELSE [part |-> at.part + 1, line |-> 1]

Reading(kinds) == pc = "parse" /\ pemLines = <<>> /\ ~AtEnd /\ Line.kind \in kinds

\* Inside a block every line belongs to it, up to the END; a body that does not
\* decode is an error.
InPEM ==
    /\ pc = "parse" /\ pemLines # <<>> /\ ~AtEnd
    /\ IF Line.kind # "end"
       THEN /\ pemLines' = Append(pemLines, Line) /\ Scan
            /\ UNCHANGED <<source, objects, bundle, pc>>
       ELSE IF pemLines[2].der = <<>> THEN Fail
       ELSE /\ objects' = [objects EXCEPT ![Len(objects)].pems =
                              Append(@, [type |-> pemLines[1].type, der |-> pemLines[2].der])]
            /\ pemLines' = <<>> /\ Scan
            /\ UNCHANGED <<source, bundle, pc>>

Header ==
    /\ Reading({"header"})
    /\ objects' = Append(objects, [attrs |-> <<>>, pems |-> <<>>])
    /\ Scan
    /\ UNCHANGED <<source, pemLines, bundle, pc>>

Begin ==
    /\ Reading({"begin"})
    /\ IF objects = <<>> THEN Fail
       ELSE /\ pemLines' = <<Line>> /\ Scan
            /\ UNCHANGED <<source, objects, bundle, pc>>

Skip ==
    /\ Reading({"attr", "bare", "comment"}) /\ (objects = <<>> \/ Line.kind = "comment")
    /\ Scan
    /\ UNCHANGED <<source, objects, pemLines, bundle, pc>>

\* cur.attrs[key] = value
Put(attrs, key, value) ==
    [k \in DOMAIN attrs \cup {key} |-> IF k = key THEN value ELSE attrs[k]]

Attribute ==
    /\ Reading({"attr", "bare"}) /\ objects # <<>>
    /\ IF Line.kind = "bare" THEN Fail
       ELSE /\ objects' = [objects EXCEPT ![Len(objects)].attrs = Put(@, Line.key, Line.value)]
            /\ Scan
            /\ UNCHANGED <<source, pemLines, bundle, pc>>

EndOfFile ==
    /\ pc = "parse" /\ AtEnd
    /\ pc' = IF pemLines = <<>> THEN "extract" ELSE "failed"
    /\ UNCHANGED <<source, at, objects, pemLines, bundle>>

-----------------------------------------------------------------------------
(* extractServerAnchors *)

Keys(o) == {o.pems[n].der : n \in {m \in DOMAIN o.pems : o.pems[m].type = "PUBLIC KEY"}}
UsageObjects == {n \in DOMAIN objects : objects[n].attrs["class"] = "usage"}

\* decodeP11Value and the two ASN.1 layers: a value that is not quoted, ends
\* inside an escape or is no ExtKeyUsage is an error.
Undecodable(value) == value \in {"unquoted", "truncated"}

\* serverAuthByKey: a key that is in the map and not allowed.  The last object
\* that names the key sets it; anyExtendedKeyUsage allows servers too.
Restricted(key) ==
    LET named == {n \in UsageObjects : key \in Keys(objects[n])}
    IN  named # {} /\ objects[CHOOSE n \in named : \A m \in named : m <= n].attrs["value"] = "mail"

\* Mutant: the version is taken to be there.
SpkiAt7(tbs) == IF Len(tbs) < 7 THEN <<>> ELSE <<tbs[7]>>

\* subjectPublicKeyInfo: an optional version, serialNumber, signature, issuer,
\* validity and subject stand before the key; <<>> when the walk runs out.
SubjectPublicKeyInfo(tbs) ==
    LET place == IF tbs[1] = "version" THEN 7 ELSE 6
    IN  IF Len(tbs) < place THEN <<>> ELSE <<tbs[place]>>

\* distrustedForServersAt
BadDate(after) == after.form = "unquoted"
Dead(after) == after.form = "date" /\ after.day + Lifetime < Now

Considered(o) == o.attrs["trusted"] /\ ~o.attrs["distrusted"]
Certificates(o) == {n \in DOMAIN o.pems : o.pems[n].type = "CERTIFICATE"}
Alive(o) == Considered(o) /\ ~Dead(o.attrs["after"])

Refuses ==
    \/ \E n \in UsageObjects : Undecodable(objects[n].attrs["value"])
    \/ \E n \in DOMAIN objects :
        \/ Considered(objects[n]) /\ BadDate(objects[n].attrs["after"])
        \/ Alive(objects[n]) /\ \E m \in Certificates(objects[n]) :
              SubjectPublicKeyInfo(objects[n].pems[m].der) = <<>>

\* The blocks of an object that are written.
Anchors(o) ==
    IF Alive(o)
    THEN Select(o.pems, {n \in Certificates(o) : ~Restricted(SubjectPublicKeyInfo(o.pems[n].der))})
    ELSE <<>>

\* Two passes: every restriction is known before any certificate is judged.
Extract ==
    /\ pc = "extract"
    /\ IF Refuses THEN Fail
       ELSE /\ bundle' = FlattenSeq([n \in DOMAIN objects |-> Anchors(objects[n])])
            /\ pc' = "done"
            /\ UNCHANGED <<source, at, objects, pemLines>>

-----------------------------------------------------------------------------
Init ==
    /\ source \in UNION {[1..n -> Objects] : n \in 0..MaxObjects}
    /\ \A n \in DOMAIN source : source[n].flaw = "open" => n = Len(source)
    /\ at = [part |-> 0, line |-> 1]
    /\ objects = <<>> /\ pemLines = <<>> /\ bundle = <<>>
    /\ pc = "parse"

Next == InPEM \/ Header \/ Begin \/ Skip \/ Attribute \/ EndOfFile \/ Extract

-----------------------------------------------------------------------------
(* What the bundle should be, from the objects themselves *)

\* The certificate of an object, if it has one, and the key it is about.
KeyOf(o) == <<o.pem.der[Len(o.pem.der)]>>
IsAnchor(n) ==
    LET o == source[n]
        about == {m \in DOMAIN source : source[m].class = "usage" /\ KeyOf(source[m]) = KeyOf(o)}
    IN  /\ o.class = "certificate" /\ o.trusted /\ ~o.distrusted
        /\ o.after.form = "date" => Now <= o.after.day + Lifetime
        /\ about # {} => \E m \in about : source[m].value # "mail" /\ \A l \in about : l <= m

Defective(o) ==
    \/ o.flaw # "none" \/ o.pem.der = <<>> \/ o.after.form = "unquoted"
    \/ o.class = "usage" /\ o.value \notin {"server", "any", "mail"}
    \/ o.class = "certificate" /\ Len(o.pem.der) < Whole(o.pem.der)

\* "A certificate is written when its object is `trusted: true`, is not
\* `x-distrusted`, and its extended-key-usage object, if p11-kit attaches one,
\* allows server authentication", kept while a leaf can still be valid; a file
\* is refused only for a defect in it (ca-bundle, run).
AnchorsExact ==
    /\ pc = "done" =>
        bundle = FlattenSeq([n \in DOMAIN source |->
                     IF IsAnchor(n) THEN <<source[n].pem>> ELSE <<>>])
    /\ pc = "failed" => \E n \in DOMAIN source : Defective(source[n])
=============================================================================
