--------------------------- MODULE PurposeBinding ---------------------------
(***************************************************************************)
(* How the gateway matches the scope of a coupon with a request            *)
(* (gateway/plugins/purpose.py).  A text is a sequence of tokens: methods, *)
(* paths, the connectors ":" and "+", the separators "," and ";", and the  *)
(* blank " ".                                                              *)
(***************************************************************************)
EXTENDS Naturals, Sequences

CONSTANTS Methods, Paths

Blank == " "
Tokens == Methods \cup Paths \cup {":", "+", ",", ";", Blank}

Has(s, t) == \E i \in DOMAIN s : s[i] = t

\* str.strip.
Strip(s) ==
    LET kept == {i \in DOMAIN s : s[i] # Blank}
    IN IF kept = {} THEN <<>>
       ELSE SubSeq(s, CHOOSE i \in kept : \A k \in kept : i <= k,
                      CHOOSE i \in kept : \A k \in kept : k <= i)

\* Faulty variant: a part may end before its separator.
PartPrefix(s, sep, a, b) == /\ a <= b /\ ~Has(SubSeq(s, a, b), sep)
                            /\ a = 1 \/ s[a - 1] = sep

\* A part of a text lies between two separators and holds none.
Part(s, sep, a, b) == /\ a <= b /\ ~Has(SubSeq(s, a, b), sep)
                      /\ a = 1 \/ s[a - 1] = sep
                      /\ b = Len(s) \/ s[b + 1] = sep

\* str.split, without the empty parts.
Split(s, sep) == UNION {{SubSeq(s, a, b) : b \in {n \in DOMAIN s : Part(s, sep, a, n)}} :
                          a \in DOMAIN s}

Trimmed(parts) == {Strip(p) : p \in parts} \ {<<>>}

\* Faulty variant: the parts are not stripped.
ParseTextUnstripped(s) ==
    IF Has(s, ",") THEN Split(s, ",")
    ELSE IF Has(s, ";") THEN Split(s, ";")
    ELSE Split(s, Blank)

\* _parse_scopes of a text: a comma anywhere wins over semicolons, and only a
\* text without either is split at blanks.
ParseText(s) ==
    IF Has(s, ",") THEN Trimmed(Split(s, ","))
    ELSE IF Has(s, ";") THEN Trimmed(Split(s, ";"))
    ELSE Split(s, Blank)

\* _parse_scopes of a claim: absent, a list of texts, or a text.
ParseScopes(v) ==
    CASE v.kind = "none" -> {}
      [] v.kind = "list" -> Trimmed({v.items[i] : i \in DOMAIN v.items})
      [] v.kind = "text" -> ParseText(v.text)

\* _derive_purpose_candidates
Candidates(m, p) == {<<m, Blank, p>>, <<m, ":", p>>, <<m, "+", p>>, <<m, p>>}

\* The empty text, the empty list and an absent claim are false to `or`.
Truthy(v) == CASE v.kind = "none" -> FALSE
               [] v.kind = "list" -> v.items # <<>>
               [] v.kind = "text" -> v.text # <<>>

\* The first true claim of scope, scp, purpose and pur; else the last of them.
ScopeClaim(claims) ==
    LET order == <<"scope", "scp", "purpose", "pur">>
        true  == {i \in 1 .. 4 : Truthy(claims[order[i]])}
    IN claims[order[IF true = {} THEN 4
                    ELSE CHOOSE i \in true : \A k \in true : i <= k]]

\* _purpose_matches_claims
PurposeMatches(claims, m, p) ==
    ParseScopes(ScopeClaim(claims)) \cap Candidates(m, p) # {}

-----------------------------------------------------------------------------
(* Scopes written one token at a time.                                     *)

CONSTANT MaxTokens   \* bound: the length of a text

VARIABLE text

Absent == [kind |-> "none"]
Text(s) == [kind |-> "text", text |-> s]
Items(s) == [kind |-> "list", items |-> s]
Scoped(v) == [scope |-> v, scp |-> Absent, purpose |-> Absent, pur |-> Absent]

ScopeInit == text = <<>>
ScopeNext == /\ Len(text) < MaxTokens
             /\ \E t \in Tokens : text' = Append(text, t)
ScopeSpec == ScopeInit /\ [][ScopeNext]_text

\* What a scope can grant by any reading: the method and the path stand
\* together in it, delimited on both sides.
Spells(s, m, p) ==
    \E i \in 1 .. Len(s), j \in 1 .. Len(s) :
       /\ SubSeq(s, i, j) \in Candidates(m, p)
       /\ i = 1 \/ s[i - 1] \in {",", ";", Blank}
       /\ j = Len(s) \/ s[j + 1] \in {",", ";", Blank}

\* However separators, connectors and blanks are mixed in a scope, it lets a
\* request pass only if it spells that very method and path as one entry
\* (_parse_scopes, _purpose_matches_claims).
NoOverreach ==
    \A m \in Methods, p \in Paths :
       PurposeMatches(Scoped(Text(text)), m, p) => Spells(text, m, p)

\* A request whose entry stands in a list of its own kind of separator passes,
\* wherever it stands and however blanks surround it: every entry of a text
\* without semicolons that has a comma, and of one without commas that has a
\* semicolon, as if it were given as a list.
ListedEntriesPass ==
    \A sep \in {",", ";"} :
       Has(text, sep) /\ ~Has(text, IF sep = "," THEN ";" ELSE ",")
         => \A m \in Methods, p \in Paths :
              (\E e \in Split(text, sep) :
                 PurposeMatches(Scoped(Items(<<e>>)), m, p))
                <=> PurposeMatches(Scoped(Text(text)), m, p)

\* TEST_SCENARIOS.md: a coupon with the scope "GET /hello" passes GET /hello.
SpacedScopeMatches ==
    \A m \in Methods, p \in Paths :
       text = <<m, Blank, p>> => PurposeMatches(Scoped(Text(text)), m, p)
=============================================================================
