------------------------------ MODULE Addressing ------------------------------
(***************************************************************************)
(* addressing.py: what a directory is called, and what an address, a sid   *)
(* or an alias looks like.                                                 *)
(*                                                                         *)
(* A text is a sequence of letters.  Those the code tells apart stand for  *)
(* themselves, "a" and "0" for all other letters and digits of names, and  *)
(* the prefix of sids is one letter, "sess_", of width 5.  A path is the   *)
(* sequence of its components; links are resolved by the file system.  The *)
(* behaviours spell out every text up to a length.                         *)
(***************************************************************************)
EXTENDS SequencesExt

CONSTANTS
    UserHomes,   \* directories that ~ may stand for, as paths
    SidLen,      \* characters after sess_
    AliasMax,    \* characters of an alias
    MaxText      \* bound: letters of a text

ASSUME LengthsAssumption ==
    /\ SidLen \in Nat \ {0} /\ AliasMax \in Nat \ {0}
    /\ MaxText \in Nat

Letter == {"/", "~", ".", "#", "a", "0", "sess_", "newline"}
Text   == Seq(Letter)

VARIABLES
    text,       \* what is spelled so far
    user_home   \* where ~ leads

Init ==
    /\ text = <<>>
    /\ user_home \in UserHomes

Spell ==
    /\ Len(text) < MaxText
    /\ \E l \in Letter : text' = Append(text, l)
    /\ UNCHANGED user_home

Spec == Init /\ [][Spell]_<<text, user_home>>

-------------------------------------------------------------------------------
\* Texts.

StartsWith(t, l) == t # <<>> /\ t[1] = l
EndsWith(t, l) == t # <<>> /\ Last(t) = l
Has(t, l) == \E i \in DOMAIN t : t[i] = l
From(t, i) == SubSeq(t, i, Len(t))
Width(t) == Len(t) + 4 * Cardinality({i \in DOMAIN t : t[i] = "sess_"})

\* One element of q after the other, from `first` on.  A recursive function and not
\* FoldLeft, of which the provers know nothing.
Fold(step, first, q) ==
    LET upto[n \in 0..Len(q)] ==
            IF n = 0 THEN first ELSE step[<<upto[n - 1], q[n]>>]
    IN  upto[Len(q)]

\* str.split("/").
Parts(parts, l) ==
    IF l = "/" THEN Append(parts, <<>>)
    ELSE Append(Front(parts), Append(Last(parts), l))

Split(t) == Fold([p \in Seq(Text) \X Letter |-> Parts(p[1], p[2])], <<<<>>>>, t)

\* Each part behind a slash.
Joined(t, part) == Append(t, "/") \o part

Join(path) == Fold([p \in Text \X Text |-> Joined(p[1], p[2])], <<>>, path)

\* The absolute path with these components, as a text.
Absolute(path) == IF path = <<>> THEN <<"/">> ELSE Join(path)

\* What is no component of a path.
Dots == {<<>>, <<".">>, <<".", ".">>}

\* os.path.realpath of an absolute path without links.
Entered(path, part) ==
    IF part \notin Dots THEN Append(path, part)
    ELSE IF part = <<".", ".">> /\ path # <<>> THEN Front(path) ELSE path

Resolve(parts) == Fold([p \in Seq(Text) \X Text |-> Entered(p[1], p[2])], <<>>, parts)

RealPath(t) == Resolve(Split(t))

-------------------------------------------------------------------------------
\* Paths.

\* Mutant: the user's home is compared without a separator behind it.
NormalizeByPrefix(t) ==
    LET real == Absolute(RealPath(t))
        home == Absolute(user_home)
    IN  IF real = home THEN <<"~">>
        ELSE IF IsPrefix(home, real) THEN <<"~", "/">> \o From(real, Len(home) + 2)
        ELSE real

normalize_path(t) ==
    LET real == Absolute(RealPath(t))
        home == Absolute(user_home)
    IN  IF real = home THEN <<"~">>
        ELSE IF IsPrefix(Append(home, "/"), real)
             THEN <<"~", "/">> \o From(real, Len(home) + 2)
        ELSE real

Clean(parts) == \A i \in DOMAIN parts : parts[i] \notin Dots

\* os.path.realpath(os.path.expanduser("~")) is the path of a directory.
ASSUME HomesAssumption ==
    \A home \in UserHomes :
        /\ home \in Seq(Seq(Letter))
        /\ Clean(home) /\ \A i \in DOMAIN home : ~Has(home[i], "/")

is_normalized_path(t) ==
    \/ t \in {<<"~">>, <<"/">>}
    \/ IsPrefix(<<"~", "/">>, t) /\ Clean(Split(From(t, 3)))
    \/ StartsWith(t, "/") /\ Clean(Tail(Split(t)))

-------------------------------------------------------------------------------
\* Names.

\* What a pattern that ends in $ has to match: not a newline at the end.
Matched(t) == IF EndsWith(t, "newline") THEN Front(t) ELSE t

Word(t) == \A i \in DOMAIN t : t[i] \in {"a", "0", "sess_"}

is_valid_sid(t) ==
    /\ StartsWith(t, "sess_")
    /\ Word(Matched(t))
    /\ Width(Matched(t)) = 5 + SidLen

\* Mutant: the prefix of sids is not reserved.
AliasUnreserved(t) ==
    LET name == Matched(t)
    IN  name # <<>> /\ name[1] # "0" /\ Word(name) /\ Width(name) <= AliasMax

is_valid_alias(t) ==
    LET name == Matched(t)
    IN  /\ name # <<>> /\ name[1] # "0" /\ Word(name)
        /\ Width(name) <= AliasMax
        /\ name[1] # "sess_"

is_valid_discriminator(t) == is_valid_sid(t) \/ is_valid_alias(t)

-------------------------------------------------------------------------------
\* Addresses.  One of a home, behind its scheme, is the text home[#discriminator].

Invalid == [home |-> <<>>, discriminator |-> <<>>]

NoDiscriminator == <<>>

Checked(home, disc, has) ==
    IF is_normalized_path(home) /\ (has => is_valid_discriminator(disc))
    THEN [home |-> home, discriminator |-> disc]
    ELSE Invalid

\* Mutant: split at the last # instead.
ParseFromTheEnd(t) ==
    IF Has(t, "#")
    THEN LET i == CHOOSE i \in DOMAIN t : t[i] = "#" /\ ~Has(From(t, i + 1), "#")
         IN  Checked(SubSeq(t, 1, i - 1), From(t, i + 1), TRUE)
    ELSE Checked(t, NoDiscriminator, FALSE)

\* parse_address, behind "home:": split at the first #.
parse_address(t) ==
    IF Has(t, "#")
    THEN LET i == CHOOSE i \in DOMAIN t : t[i] = "#" /\ ~Has(SubSeq(t, 1, i - 1), "#")
         IN  Checked(SubSeq(t, 1, i - 1), From(t, i + 1), TRUE)
    ELSE Checked(t, NoDiscriminator, FALSE)

render(home, disc) == IF disc = NoDiscriminator THEN home ELSE home \o <<"#">> \o disc

-------------------------------------------------------------------------------
\* The path that a name of a home leads to.
Leads(home) ==
    IF StartsWith(home, "~") THEN user_home \o Tail(Split(home)) ELSE RealPath(home)

\* What normalize_path makes of a directory is a name the daemon accepts and leads
\* back to that directory: no two directories share a home, however a path is
\* spelled and whatever it begins with.  And what the daemon accepts from others
\* (is_normalized_path looks at the form alone) is that name or an alias of one
\* kind: an absolute path into the user's home, or, where ~ is /, a path behind ~.
CanonicalHomes ==
    /\ StartsWith(text, "/") =>
         LET home == normalize_path(text)
         IN  is_normalized_path(home) /\ Leads(home) = RealPath(text)
    /\ is_normalized_path(text) =>
         \/ normalize_path(Absolute(Leads(text))) = text
         \/ StartsWith(text, "/") /\ IsPrefix(user_home, Leads(text))
         \/ IsPrefix(<<"~", "/">>, text) /\ user_home = <<>>

\* Router.send files a DM under the text it was addressed to (router.py:292), and
\* hello and set_alias drain the texts made from a home and a name.  Who an address
\* names drains it; and whoever drains it is who it names, but for sessions whose
\* home contains a #: a DM to one of these goes to another home, or is refused.
DrainedByWhomItNames ==
    LET to == parse_address(text)
    IN  /\ to # Invalid => render(to.home, to.discriminator) = text
        /\ \A i \in 1..Len(text) + 1 :
             LET home == SubSeq(text, 1, i - 1)
                 disc == From(text, i + 1)
             IN  /\ is_normalized_path(home)
                 /\ \/ i = Len(text) + 1
                    \/ text[i] = "#" /\ is_valid_discriminator(disc)
                 => (to = [home |-> home, discriminator |-> disc] <=> ~Has(home, "#"))

\* No sid is an alias, so that an address names one or the other (NamesAssumption of
\* module Router), and neither can be taken for part of a path; the one letter too
\* many that their patterns let through is a newline at the end.
NamesApart ==
    /\ ~(is_valid_sid(text) /\ is_valid_alias(text))
    /\ is_valid_discriminator(text) =>
         /\ ~is_normalized_path(text) /\ ~Has(text, "#")
         /\ \A i \in DOMAIN text : text[i] = "newline" => i = Len(text)
===============================================================================
