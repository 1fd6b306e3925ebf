------------------------------ MODULE TextCodes -------------------------------
(***************************************************************************)
(* The two conversions that turn what a user types into an address:        *)
(* normalizeRoleCode makes the code of a role of its name, slugify the     *)
(* path of a document of its title.  A character is abstracted to what     *)
(* the patterns distinguish.                                               *)
(***************************************************************************)
EXTENDS Naturals, Sequences, FiniteSets

CONSTANTS
  MaxLen,      \* bound: characters typed
  SlugLen      \* slice(0, 80)

\* A letter of a-z in two cases, one with an accent that NFKD takes off it, a digit,
\* the separators of the two formats, a blank, and a letter of none of these kinds:
\* of another script, or Latin like the o-slash, sharp s and ae, which NFKD leaves
\* whole.
Chars == { "a", "A", "a-acute", "1", "-", "_", " ", "han" }

\* The BadRequestException of a text no code is made of: codes are not empty.
NoCode == << >>

ASSUME TextAssumption == MaxLen \in Nat /\ SlugLen \in Nat \ {0}

\* What somebody may type as the name of a role or the title of a document.
Texts == UNION { [1..n -> Chars] : n \in 0..MaxLen }

----------------------------------------------------------------------------
\* Drops the characters of `out' at both ends of s.
Strip(out, s) ==
  LET inner == { i \in DOMAIN s : s[i] \notin out } IN
  IF inner = {} THEN << >>
  ELSE SubSeq(s, CHOOSE i \in inner : \A j \in inner : i <= j,
                 CHOOSE i \in inner : \A j \in inner : i >= j)

\* How many members of S are at most i.
Rank(S, i) == Cardinality({ j \in S : j <= i })

\* replace(/[^keep]+/g, sep): the positions that stand are those of the
\* characters of `keep' and, of every run of others, the first, which becomes
\* the separator.
Standing(keep, s) ==
  { i \in DOMAIN s : s[i] \in keep \/ i = 1 \/ s[i - 1] \in keep }

Separated(keep, sep, s) ==
  LET standing == Standing(keep, s) IN
  [k \in 1 .. Cardinality(standing) |->
     LET i == CHOOSE j \in standing : Rank(standing, j) = k IN
     IF s[i] \in keep THEN s[i] ELSE sep]

Upper(ch) == IF ch = "a" THEN "A" ELSE ch

\* Mutant: accented letters are separators, as they are to normalizeRoleCode.
PlainCase(ch) == IF ch = "A" THEN "a" ELSE ch

\* toLowerCase, normalize('NFKD') and the removal of the combining marks; a letter
\* that does not come apart stays, and is a separator to slugify.
Plain(ch) == IF ch \in { "A", "a-acute" } THEN "a" ELSE ch

CodeChars == { "A", "1" }

\* Mutant: the ends are trimmed before the separators are put in.
RoleCodeLoose(s) ==
  LET code == Separated(CodeChars, "_", Strip({" "}, [i \in DOMAIN s |-> Upper(s[i])])) IN
  IF code = << >> \/ Head(code) # "A" THEN NoCode ELSE code

\* normalizeRoleCode: a code begins with a letter.
RoleCode(s) ==
  LET upper == [i \in DOMAIN s |-> Upper(s[i])]
      code == Strip({"_"}, Separated(CodeChars, "_", Strip({" "}, upper)))
  IN IF code = << >> \/ Head(code) # "A" THEN NoCode ELSE code

SlugChars == { "a", "1" }

\* slugify: the cut comes last, so it may leave a dash at the end.
Slug(s) ==
  LET plain == [i \in DOMAIN s |-> Plain(s[i])]
      slug == Strip({"-"}, Separated(SlugChars, "-", plain))
  IN SubSeq(slug, 1, IF Len(slug) < SlugLen THEN Len(slug) ELSE SlugLen)

\* @Matches(/^[a-z0-9-]+$/) of a slug that a client gives.
SlugAccepted(s) == s # << >> /\ \A i \in DOMAIN s : s[i] \in SlugChars \cup {"-"}

----------------------------------------------------------------------------
(* Properties.                                                             *)

\* updateRole compares the code of the new name with the stored one, and users
\* are assigned by a code a client wrote: a code is its own code, so "QA_LEAD"
\* and "qa lead" address one role, and it is in one form, without separators
\* at the ends or in a row.
RoleCodeStable(text) ==
  LET code == RoleCode(text) IN
  code # NoCode =>
    /\ RoleCode(code) = code
    /\ code[Len(code)] # "_"
    /\ \A i \in DOMAIN code : code[i] \in CodeChars \cup {"_"}
    /\ \A i \in 1 .. Len(code) - 1 : code[i] = "_" => code[i + 1] # "_"

\* A role can be named by anything that starts, after signs and blanks, with a
\* letter of A-Z; case, surroundings and the kind of separator make no other role.
RoleCodeIgnoresSpelling(text) ==
  LET shouted == [i \in DOMAIN text |-> Upper(text[i])]
      blanks == [i \in DOMAIN text |-> IF text[i] \in {"-", "_"} THEN " " ELSE text[i]]
  IN /\ RoleCode(shouted) = RoleCode(text)
     /\ RoleCode(blanks) = RoleCode(text)
     /\ RoleCode(<<" ">> \o text \o <<"-">>) = RoleCode(text)

\* The slug derived of a title with a digit or a letter that is, once in small and
\* without a mark NFKD takes off, one of a-z is one a client might have given, does
\* not begin with a dash, and ends with one only where it was cut.  Any other title
\* gives an empty slug, which the field itself would not accept ("URL slug,
\* lowercase + dashes. Auto-derived if omitted.").
SlugOfWordsAccepted(text) ==
  (\E i \in DOMAIN text : text[i] \in { "a", "A", "a-acute", "1" }) =>
    LET slug == Slug(text) IN
    /\ SlugAccepted(slug)
    /\ Head(slug) # "-"
    /\ slug[Len(slug)] = "-" => Len(slug) = SlugLen
    /\ Len(slug) <= SlugLen
=============================================================================
