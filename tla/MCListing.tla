------------------------------- MODULE MCListing -------------------------------
(* Small instances of Listing: four events, two of one created_at, around  *)
(* the days on either side of a change of clocks.                          *)
EXTENDS Listing, TLC

(* Texts and what they, the keys and the values are spelled with.          *)
MCTexts == {"", "x", "xy", "y", "quote"}
MCChars == [t \in {"tag", "people"} |-> <<t>>]
           @@ [t \in {"a", "b"} |-> <<t>>]
           @@ ("" :> <<>>) @@ ("x" :> <<"a">>) @@ ("xy" :> <<"a", Space, "b">>) @@ ("y" :> <<"b">>)
           @@ ("quote" :> <<"a", "=", "b">>)
           @@ ("a b" :> <<"a", Space, "b">>) @@ ("a&b" :> <<"a", "&", "b">>) @@ ("#a" :> <<"#", "a">>)

tagA   == [key |-> "tag", value |-> "a"]
aIsB   == [key |-> "a", value |-> "b"]
andKey == [key |-> "a&b", value |-> "b"]
bIsAB  == [key |-> "b", value |-> "a b"]
hashed == [key |-> "#a", value |-> "b"]

MCTuples == {tagA, aIsB, bIsAB, andKey, hashed}
MCTagsIn == [x \in MCTexts |-> {}]
MCUnfindable == {t \in MCTuples : ~ValidateMeta(Written(t))}

MCStamps == {6, 10, 11}
MCZone   == [before |-> 0, at |-> 8, after |-> 1]

Event(title, at) == [parent |-> NoParent, title |-> title, body |-> "", at |-> at]
MetaOfEvent(tuples) == [t \in MCTuples |-> IF t \in tuples THEN "explicit" ELSE "none"]
Journal4 ==
  LET events == <<Event("x", 6), Event("xy", 10), Event("y", 10), Event("quote", 11)>>
      meta   == <<MetaOfEvent({tagA}), MetaOfEvent({aIsB}), MetaOfEvent({hashed, bIsAB}),
                  MetaOfEvent({tagA, andKey})>>
  IN [events |-> events, meta |-> meta, seq |-> 4,
      fts |-> [i \in 1..4 |-> FTSColumns(events[i], meta[i])]]
MCOpenings == {Journal4}

Request(search, from, to, limit, reverse, format, paged) ==
  [kind |-> "list", search |-> search, from |-> from, to |-> to, limit |-> limit,
   reverse |-> reverse, format |-> format, paged |-> paged]

Strings(symbols, n) == UNION {[1..k -> symbols] : k \in 0..n}
Searches == Strings({"a", "b", "&", "|", "!"}, 4) \cup Strings({"a", "=", "#", "*", "!", Space}, 4)
Terms == {"a", "b"}
Precedences == {<<p, o, q, r, s>> : p \in Terms, q \in Terms, s \in Terms,
                                    o \in {"&", "|"}, r \in {"&", "|"}}
TagSearches == {Typed(t) : t \in {t \in MCTuples : ValidateMeta(Written(t))}}
SearchJobs(searches) == {Request(s, NoBound, NoBound, 0, FALSE, "flat", FALSE) : s \in searches}
RefusedJobs == {Request(r[1], NoBound, NoBound, r[2], FALSE, f, p) :
                  r \in {<<<<"|">>, 0>>, <<<<>>, -1>>},
                  f \in {"flat", "csv", "json", "tree"}, p \in BOOLEAN}

When(form, day, hour, ago) == [form |-> form, day |-> day, hour |-> hour, ago |-> ago]
Bounds == {NoBound} \cup {When("date", d, 0, 0) : d \in 0..2} \cup {When("dayAgo", 0, 0, 1)}
          \cup {When("clock", 0, 0, 0), When("both", 1, 5, 0), When("dayAgoAt", 0, 2, 1),
                When("instant", 0, 0, 1)}
RangeJobs == {Request(<<>>, f, t, 0, r, "flat", FALSE) : f \in Bounds, t \in Bounds, r \in BOOLEAN}
LimitJobs == {Request(s, f, NoBound, n, r, "flat", FALSE) :
                s \in {<<>>, <<"a">>}, f \in {NoBound, When("date", 1, 0, 0)},
                n \in -1..3, r \in BOOLEAN}

MCStirred == {Request(<<>>, NoBound, NoBound, 3, FALSE, f, p) :
                f \in {"flat", "csv", "json", "tree"}, p \in BOOLEAN}
             \cup {[kind |-> k] : k \in {"help", "usage", "ask", "edit"}}
MCJobs == SearchJobs(Searches \cup Precedences \cup TagSearches)
          \cup RangeJobs \cup LimitJobs \cup RefusedJobs \cup MCStirred
TypedJobs == SearchJobs(Searches \cup TagSearches)
NoJobs == {}

===============================================================================
