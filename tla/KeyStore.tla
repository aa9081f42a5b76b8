------------------------------ MODULE KeyStore ------------------------------
(***************************************************************************)
(* How the certificate and the key of a CA are read, src/ca/keystore.rs:   *)
(* from a key file, which an operator has put together or write_ca_pem has *)
(* written, perhaps not to its end, or from a value of the configuration.  *)
(* Startup takes the outcome; here are the lines of the text.              *)
(*                                                                         *)
(* A line begins a PEM block, ends one, is a line of base64, or is         *)
(* anything else; blank lines are left out.  What base64 stands for is a   *)
(* DER object, whole or cut off, and an object takes one line.             *)
(***************************************************************************)
EXTENDS Naturals, Sequences

CONSTANTS
  Texts,    \* what a file or a value may hold
  Pairs,    \* key pairs
  Padded,   \* objects whose base64 ends in padding
  Error,    \* the answer where there is none
  NoLabel   \* between blocks

KeyLabels == {"PRIVATE KEY", "RSA PRIVATE KEY", "ENCRYPTED PRIVATE KEY"}
Labels    == KeyLabels \cup {"CERTIFICATE", "X509 CRL"}
Sources   == {"file", "value", "encoded"}  \* encoded: a value, the base64 of a text
Passwords == {"none", "right", "wrong"}    \* key_password_env

\* Objects, and the part of one that is left where it was cut off.
Kinds   == {"Certificate", "PKCS8", "PKCS1", "EncryptedPKCS8"}
Objects == [kind : Kinds, pair : Pairs, whole : BOOLEAN]

\* DER itself is one line without a block around it.
Line == [is : {"begin"}, label : Labels] \cup [is : {"base64", "der"}, object : Objects] \cup
        [is : {"end", "other"}]

Block == [label : Labels, lines : Seq(Line)]

ASSUME TextsAssumption == Texts \subseteq Seq(Line)
ASSUME ErrorAssumption == Error \notin Pairs
ASSUME NoLabelAssumption == NoLabel \notin Labels \cup Pairs \cup {Error}

VARIABLES
  source,    \* where the text comes from
  password,  \* the password that is configured
  text,      \* the lines
  at,        \* the line that is read next
  label,     \* the label of the block that is open
  lines,     \* its lines so far
  blocks,    \* the blocks read
  cert, key  \* what parse_certificate and parse_private_key return, once done

vars == <<source, password, text, at, label, lines, blocks, cert, key>>

TypeOK ==
  /\ source \in Sources /\ password \in Passwords /\ text \in Texts
  /\ at \in 1..(Len(text) + 1)
  /\ label \in Labels \cup {NoLabel}
  /\ lines \in Seq(Line)
  /\ blocks \in Seq(Block)
  /\ cert \in Pairs \cup {Error, NoLabel} /\ key \in Pairs \cup {Error, NoLabel}

Init ==
  /\ source \in Sources /\ password \in Passwords /\ text \in Texts
  /\ at = 1
  /\ label = NoLabel
  /\ lines = <<>>
  /\ blocks = <<>>
  /\ cert = NoLabel /\ key = NoLabel

-----------------------------------------------------------------------------
(***************************************************************************)
(* What the bytes are.                                                     *)
(***************************************************************************)

Is(t, i, what) == t[i].is = what

\* Text with a block in it is PEM (as_pem_blocks).
Pem(t) == /\ \A i \in 1..Len(t) : ~ Is(t, i, "der")
          /\ \E i \in 1..Len(t) : Is(t, i, "begin")

\* Base64 decodes if nothing follows its padding; that of nothing does.
Decodes(ls) ==
  \A i \in 1..Len(ls) : Is(ls, i, "base64") /\ (i < Len(ls) => ls[i].object \notin Padded)

\* A value of the configuration is PEM if it starts like PEM, and otherwise
\* base64 or an error (material_to_bytes).
Material(s, t) ==
  IF s # "value" \/ (t # <<>> /\ Is(t, 1, "begin")) THEN t
  ELSE IF Decodes(t) /\ Len(t) = 1 THEN <<[is |-> "der", object |-> t[1].object]>>
  ELSE <<>>

-----------------------------------------------------------------------------
(***************************************************************************)
(* What is in the blocks.                                                  *)
(***************************************************************************)

\* Mutated form of Whole: an object that is cut off will do.
WholeOrNot(ls) == Len(ls) = 1 /\ ls[1].is \in {"base64", "der"}

\* from_der: one object, from its first byte to its last.
Whole(ls) == Len(ls) = 1 /\ ls[1].is \in {"base64", "der"} /\ ls[1].object.whole

FromDer(ls, kind) ==
  IF Whole(ls) /\ ls[1].object.kind = kind THEN ls[1].object.pair ELSE Error

\* decrypt_pkcs8.
Decrypt(ls, pw) == IF pw = "right" THEN FromDer(ls, "EncryptedPKCS8") ELSE Error

\* load_key_block: the label says how the block is read.
LoadKeyBlock(b, pw) ==
  CASE b.label = "PRIVATE KEY"           -> FromDer(b.lines, "PKCS8")
    [] b.label = "RSA PRIVATE KEY"       -> FromDer(b.lines, "PKCS1")
    [] b.label = "ENCRYPTED PRIVATE KEY" -> Decrypt(b.lines, pw)

\* key_from_der: DER of any of the three kinds.
KeyFromDer(ls, pw) ==
  IF \E kind \in {"PKCS8", "PKCS1"} : FromDer(ls, kind) # Error THEN ls[1].object.pair
  ELSE Decrypt(ls, pw)

First(I) == CHOOSE i \in I : \A j \in I : i <= j

\* The first block of these labels, and what becomes of it.
Labelled(bs, ls) == {i \in 1..Len(bs) : bs[i].label \in ls}

\* Mutated form of KeyIn: a block that is no key is passed over.
KeyInAny(bs, pw) ==
  LET keys == {i \in Labelled(bs, KeyLabels) : LoadKeyBlock(bs[i], pw) # Error}
  IN  IF keys = {} THEN Error ELSE LoadKeyBlock(bs[First(keys)], pw)

CertIn(bs) ==
  LET certs == Labelled(bs, {"CERTIFICATE"})
  IN  IF certs = {} THEN Error ELSE FromDer(bs[First(certs)].lines, "Certificate")

KeyIn(bs, pw) ==
  LET keys == Labelled(bs, KeyLabels)
  IN  IF keys = {} THEN Error ELSE LoadKeyBlock(bs[First(keys)], pw)

-----------------------------------------------------------------------------
(***************************************************************************)
(* pem_blocks, line by line.                                               *)
(***************************************************************************)

Bytes == Material(source, text)

Reading == cert = NoLabel /\ Pem(Bytes)

Given == UNCHANGED <<source, password, text, cert, key>>

\* Between blocks all lines but a first line of a block are passed over.
SkipLine ==
  /\ Reading /\ label = NoLabel /\ at <= Len(Bytes)
  /\ ~ Is(Bytes, at, "begin")
  /\ at' = at + 1
  /\ Given /\ UNCHANGED <<label, lines, blocks>>

BeginBlock ==
  /\ Reading /\ label = NoLabel /\ at <= Len(Bytes)
  /\ Is(Bytes, at, "begin")
  /\ label' = Bytes[at].label
  /\ lines' = <<>>
  /\ at' = at + 1
  /\ Given /\ UNCHANGED blocks

\* Within a block every line is taken for base64 that does not end it, the
\* first line of another block included.
TakeLine ==
  /\ Reading /\ label # NoLabel /\ at <= Len(Bytes)
  /\ ~ Is(Bytes, at, "end")
  /\ lines' = Append(lines, Bytes[at])
  /\ at' = at + 1
  /\ Given /\ UNCHANGED <<label, blocks>>

\* A block that does not decode is dropped.
Closed(bs, b) == IF Decodes(b.lines) THEN Append(bs, b) ELSE bs

\* A block ends with its last line, whatever label that has, or with the text.
EndBlock ==
  /\ Reading /\ label # NoLabel
  /\ at <= Len(Bytes) => Is(Bytes, at, "end")
  /\ blocks' = Closed(blocks, [label |-> label, lines |-> lines])
  /\ label' = NoLabel
  /\ at' = IF at > Len(Bytes) THEN at ELSE at + 1
  /\ Given /\ UNCHANGED lines

\* parse_certificate and parse_private_key; a load is good if both are.
Parse ==
  /\ cert = NoLabel
  /\ \/ /\ Pem(Bytes) /\ label = NoLabel /\ at > Len(Bytes)
        /\ cert' = CertIn(blocks)
        /\ key' = KeyIn(blocks, password)
     \/ /\ ~ Pem(Bytes)
        /\ LET der == IF Len(Bytes) = 1 /\ Is(Bytes, 1, "der") THEN Bytes ELSE <<>>
           IN  cert' = FromDer(der, "Certificate") /\ key' = KeyFromDer(der, password)
  /\ UNCHANGED <<source, password, text, at, label, lines, blocks>>

Next == SkipLine \/ BeginBlock \/ TakeLine \/ EndBlock \/ Parse

Spec == Init /\ [][Next]_vars

-----------------------------------------------------------------------------
(***************************************************************************)
(* Properties.                                                             *)
(***************************************************************************)

\* What write_ca_pem writes for the pair p.
Bundle(p) ==
  LET Of(kind) == [is |-> "base64", object |-> [kind |-> kind, pair |-> p, whole |-> TRUE]]
  IN  <<[is |-> "begin", label |-> "CERTIFICATE"], Of("Certificate"), [is |-> "end"],
        [is |-> "begin", label |-> "PRIVATE KEY"], Of("PKCS8"), [is |-> "end"]>>

\* What is left of a line that is cut off: with luck a line of its kind.  An
\* object that is cut off could be of any pair.
Pieces(l) ==
  {[is |-> "other"]} \cup
  (IF l.is = "base64"
   THEN {[is |-> "base64", object |-> [kind |-> l.object.kind, pair |-> q, whole |-> FALSE]] : q \in Pairs}
   ELSE IF l.is = "end" THEN {l} ELSE {})

LeftOf(t, b) ==
  /\ Len(t) <= Len(b)
  /\ \A i \in 1..Len(t) : t[i] = b[i] \/ (i = Len(t) /\ t[i] \in Pieces(b[i]))

\* A key file that a killed process left half written is refused, or there is
\* enough of it to get the very CA that was being written; and a whole one is
\* read back, whatever password is configured (write_ca_pem, FileKeyStore).
HalfWrittenFilesAreRefused ==
  \A p \in Pairs : (cert # NoLabel /\ source = "file" /\ LeftOf(text, Bundle(p))) =>
    /\ (cert = p /\ key = p) \/ Error \in {cert, key}
    /\ text = Bundle(p) => cert = p /\ key = p

\* A line begins a block unless it is in another one: since the line that
\* began that, none has ended it.
Starts(t) ==
  {i \in 1..Len(t) : Is(t, i, "begin") /\
     \A j \in 1..(i - 1) : Is(t, j, "begin") => \E k \in j..i : Is(t, k, "end")}

Ends(t, i) == {k \in i..Len(t) : Is(t, k, "end")} \cup {Len(t) + 1}

Body(t, i) == SubSeq(t, i + 1, First(Ends(t, i)) - 1)

Found(t, ls) == {i \in Starts(t) : t[i].label \in ls /\ Decodes(Body(t, i))}

\* However the text is put together, with several blocks, blocks that lack
\* their end and swallow the next one, or that do not decode and are passed
\* over, the certificate and the key are those of the first block of their
\* labels; where that is no certificate or key, no other one is taken for it
\* (pem_blocks, parse_certificate, parse_private_key).
FirstOfEachDecides ==
  (cert # NoLabel /\ Pem(Bytes)) =>
    LET certs == Found(Bytes, {"CERTIFICATE"})
        keys  == Found(Bytes, KeyLabels)
        At(i) == [label |-> Bytes[i].label, lines |-> Body(Bytes, i)]
    IN  /\ cert = IF certs = {} THEN Error ELSE FromDer(Body(Bytes, First(certs)), "Certificate")
        /\ key = IF keys = {} THEN Error ELSE LoadKeyBlock(At(First(keys)), password)
=============================================================================
