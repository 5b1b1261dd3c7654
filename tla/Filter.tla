--------------------------------- MODULE Filter ---------------------------------
(***************************************************************************)
(* internal/event/filter.go and the shape rules of internal/parse: what an *)
(* -S expression means, and which metadata may be minted.                  *)
(*                                                                         *)
(* Text is a sequence of symbols: the marks below, which the rules tell    *)
(* apart, and any other value, which stands for a letter or a whole name.  *)
(***************************************************************************)
EXTENDS Integers, Sequences, FiniteSets

Space == " "
Marks == {Space, "&", "|", "!", "*", "=", "#", "@"}
Delims == {Space, "&", "|"}                            (* IsFilterDelim *)

Symbols(s) == {s[k] : k \in DOMAIN s}
Opens(s, marks) == s # <<>> /\ s[1] \in marks

(* Where the run of symbols without these marks ends that i is in.         *)
EndOf(s, i, marks) ==
  CHOOSE j \in i..Len(s) : /\ \A k \in i..j : s[k] \notin marks
                           /\ j < Len(s) => s[j+1] \in marks

(* strings.Cut at the first "=".                                           *)
HasEq(s)   == "=" \in Symbols(s)
FirstEq(s) == CHOOSE k \in DOMAIN s : s[k] = "=" /\ \A j \in 1..k-1 : s[j] # "="
Key(s)     == SubSeq(s, 1, FirstEq(s) - 1)
Value(s)   == SubSeq(s, FirstEq(s) + 1, Len(s))

(* Meta.Token.                                                             *)
Spelled(t) == t.key \o <<"=">> \o t.value

ValidateMeta(t) ==
  /\ t.key # <<>> /\ Symbols(t.key) \cap Delims = {}
  /\ ~Opens(t.key, {"!"})
  /\ t.value # <<>>

-------------------------------------------------------------------------------
(* tokenizeFilter.                                                         *)

Operators   == {"&", "|", "!"}
Operator(c) == [kind |-> c, text |-> <<c>>]
Term(s)     == [kind |-> "term", text |-> s]
TokensOf(s) == [kind : Operators \cup {"term"}, text : Seq(Symbols(s))]

Tokenize(s) ==
  LET From[at \in (1..Len(s)+1) \X Seq(TokensOf(s))] ==
        LET i == at[1]  toks == at[2] IN
        IF i > Len(s) THEN toks
        ELSE IF s[i] = Space THEN From[<<i+1, toks>>]
        ELSE IF s[i] \in Operators THEN From[<<i+1, Append(toks, Operator(s[i]))>>]
        ELSE From[<<EndOf(s, i, Delims) + 1, Append(toks, Term(SubSeq(s, i, EndOf(s, i, Delims))))>>]
  IN From[<<1, <<>>>>]

(* ftsTerm: the column a term is looked up in, the phrase, and whether its *)
(* last word is a prefix.  A sigil takes a name MetaArg accepts.           *)
Starred(s) == Len(s) > 1 /\ s[Len(s)] = "*"
Bare(s)    == IF Starred(s) THEN SubSeq(s, 1, Len(s) - 1) ELSE s
IsName(s)  == s # <<>> /\ Symbols(s) \cap Marks = {}

(* Bug: every term looked up in the text.                                  *)
ColumnAny(s) == "content"

Column(s) == IF Opens(s, {"#", "@"}) \/ (HasEq(s) /\ Key(s) # <<>>) THEN "meta" ELSE "content"

TermRefused(s) == Opens(Bare(s), {"#", "@"}) /\ ~IsName(Tail(Bare(s)))

FTSTerm(s) ==
  LET b == Bare(s) IN
  [ column |-> Column(b), prefix |-> Starred(s),
    phrase |-> CASE Opens(b, {"#"}) -> Spelled([key |-> <<"tag">>, value |-> Tail(b)])
                 [] Opens(b, {"@"}) -> Spelled([key |-> <<"people">>, value |-> Tail(b)])
                 [] OTHER -> b ]

-------------------------------------------------------------------------------
(* The parser.  The SQL it builds is boolean algebra over sets of events,  *)
(* so it is modelled by the set: all the events there are, hits[k] those   *)
(* token k finds when it is a term.  A parse is [at, found]: the next      *)
(* token and the events found so far; at is 0 after an error.              *)

Parsed(at, found) == [at |-> at, found |-> found]
Failed == Parsed(0, {})
Kind(toks, i) == IF i \in DOMAIN toks THEN toks[i].kind ELSE "end"

(* parseUnary.                                                             *)
Unary(toks, hits, all, i) ==
  LET U[j \in Nat] ==
        CASE Kind(toks, j) = "!" -> LET r == U[j+1] IN
               IF r = Failed THEN Failed ELSE Parsed(r.at, all \ r.found)
          [] Kind(toks, j) = "term" ->
               IF TermRefused(toks[j].text) THEN Failed ELSE Parsed(j+1, hits[j])
          [] OTHER -> Failed
  IN U[i]

(* parseAnd, from its first operand and from a token on.                   *)
AndFrom(toks, hits, all, first) ==
  LET Rest[l \in [at : Nat, found : SUBSET all]] ==
        IF l.at = 0 \/ Kind(toks, l.at) \in {"|", "end"} THEN l
        ELSE LET r == Unary(toks, hits, all, IF Kind(toks, l.at) = "&" THEN l.at+1 ELSE l.at)
             IN IF r = Failed THEN Failed ELSE Rest[Parsed(r.at, l.found \cap r.found)]
  IN Rest[first]

(* Bug: a negation that opens a conjunction negates the whole of it.       *)
ConjunctionNegated(toks, hits, all, i) ==
  LET rest == AndFrom(toks, hits, all, Unary(toks, hits, all, i + 1)) IN
  IF Kind(toks, i) # "!" THEN AndFrom(toks, hits, all, Unary(toks, hits, all, i))
  ELSE IF rest = Failed THEN Failed ELSE Parsed(rest.at, all \ rest.found)

Conjunction(toks, hits, all, i) ==
  AndFrom(toks, hits, all, Unary(toks, hits, all, i))

(* parseOr.                                                                *)
CompileFilter(toks, hits, all) ==
  LET Rest[l \in [at : Nat, found : SUBSET all]] ==
        IF l.at = 0 \/ Kind(toks, l.at) # "|" THEN l
        ELSE LET r == Conjunction(toks, hits, all, l.at + 1)
             IN IF r = Failed THEN Failed ELSE Rest[Parsed(r.at, l.found \cup r.found)]
  IN Rest[Conjunction(toks, hits, all, 1)]

-------------------------------------------------------------------------------
(* What an expression means, by its grammar rather than by a parse: "!"    *)
(* binds tightest, then "&" or nothing, then "|".                          *)

StartsOperand(toks, i) == Kind(toks, i) \in {"term", "!"}
WellFormed(toks) ==
  /\ toks # <<>>
  /\ \A i \in DOMAIN toks :
       CASE toks[i].kind = "term" -> ~TermRefused(toks[i].text)
         [] toks[i].kind = "!"    -> StartsOperand(toks, i + 1)
         [] OTHER -> Kind(toks, i - 1) = "term" /\ StartsOperand(toks, i + 1)

(* The run of "!" before token i.                                          *)
Negations(toks, i) ==
  CHOOSE n \in 0..i-1 : /\ \A j \in i-n..i-1 : toks[j].kind = "!"
                        /\ Kind(toks, i - n - 1) # "!"

(* Some alternative between two "|" has each of its terms as it asks.      *)
Alternatives(toks) ==
  {alt \in (DOMAIN toks) \X (DOMAIN toks) :
     /\ alt[1] <= alt[2] /\ \A i \in alt[1]..alt[2] : toks[i].kind # "|"
     /\ Kind(toks, alt[1] - 1) \in {"|", "end"}
     /\ Kind(toks, alt[2] + 1) \in {"|", "end"}}

Meaning(toks, hits, all) ==
  {e \in all : \E alt \in Alternatives(toks) : \A i \in alt[1]..alt[2] :
     toks[i].kind = "term" => ((e \in hits[i]) <=> Negations(toks, i) % 2 = 0)}

===============================================================================
