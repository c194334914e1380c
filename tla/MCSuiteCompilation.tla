------------------------- MODULE MCSuiteCompilation -------------------------
(***************************************************************************)
(* Two providers, one with two access paths of different eligibility, one  *)
(* of them undecided; two operators of its file; a suite of two cases in     *)
(* both modes.  The revisions change what the plan depends on, some of     *)
(* them against what another document says, and once the suite together    *)
(* with its bindings.                                                      *)
(***************************************************************************)
EXTENDS SuiteCompilation

CONSTANTS o1, o2

\* An emptied file holds no fields.
Emptied == <<>>

Decided(d) == [disposition |-> d, by |-> NoOne]

AccessPath(eligible, interface, transport, q) ==
    [eligible |-> eligible, interface |-> interface, transport |-> transport,
     qualification |-> q]

FileA(q1, q2) ==
    [provider |-> "A",
     paths |-> [a1 |-> AccessPath("yes", "tool", "native_mcp", q1),
                a2 |-> AccessPath("no", "rest", "qveris_connector", q2)]]
FileB(eligible, q) ==
    [provider |-> "B",
     paths |-> [b1 |-> AccessPath(eligible, "rest", "qveris_connector", q)]]

MCCheckout == [a |-> FileA(Decided("included"), Undecided),
               b |-> FileB("no", Decided("included"))]
MCFileEdits == {<<"b", FileB("yes", Decided("included"))>>,
                <<"a", [FileA(Decided("included"), Undecided) EXCEPT !.provider = "B"]>>}
MCFileOrder == <<"a", "b">>
MCRequest ==
    [o \in Operators |->
       IF o = o1 THEN [file |-> "a", path |-> "a1", disposition |-> "included"]
       ELSE [file |-> "a", path |-> "a2", disposition |-> "excluded"]]

Case(c, input, providers, negative) ==
    [case |-> c, cap |-> "cap", input |-> input, providers |-> providers,
     negative |-> negative,
     conditions |-> IF negative = "yes" THEN "refused" ELSE "answered"]

Binding(p, provider, interface, authorised) ==
    [path |-> p, provider |-> provider, interface |-> interface,
     authorised |-> authorised]

Direct(id, c, p, provider, transport) ==
    [id |-> id, suite |-> "suite", case |-> c, path |-> p, provider |-> provider,
     transport |-> transport]

MCSuite == [id |-> "suite", cap |-> "cap", cases |-> <<"c1", "c2">>,
            paths |-> <<"a1", "a2", "b1">>, modes |-> Modes, rounds |-> 1,
            tool |-> "tool",
            rules |-> <<[case |-> "c2", path |-> "b1", mode |-> AnyMode, reason |-> "rule"]>>]

MCDirects == <<Direct("d1", "c1", "a1", "A", "native_mcp"),
               Direct("d2", "c1", "a2", "A", "qveris_connector"),
               Direct("d3", "c1", "b1", "B", "qveris_connector"),
               Direct("d4", "c2", "a1", "A", "native_mcp"),
               Direct("d5", "c2", "a2", "A", "qveris_connector")>>

MCDocuments ==
    [suite     |-> MCSuite,
     cap       |-> [cap |-> "cap", source |-> "h1"],
     contracts |-> "h1",
     cases     |-> <<Case("c1", "i1", {}, "no"), Case("c2", "i2", {}, "yes")>>,
     bindings  |-> <<Binding("a1", "A", "tool", "no"), Binding("a2", "A", "rest", "yes"),
                     Binding("b1", "B", "rest", "no")>>,
     rules     |-> [completion |-> "answered", negative |-> "refused"],
     directs   |-> MCDirects,
     qveris    |-> [suite |-> "suite", path |-> "a2", provider |-> "A"]]

MCRevisions ==
    {[suite |-> [MCSuite EXCEPT !.rules = <<>>]],
     [suite |-> [MCSuite EXCEPT !.rules =
         @ \o <<[case |-> "c2", path |-> "b1", mode |-> "direct", reason |-> "later"]>>]],
     [suite |-> [MCSuite EXCEPT !.modes = {"direct"}, !.tool = NoTool]],
     [suite |-> [MCSuite EXCEPT !.paths = <<"b1">>],
      bindings |-> <<Binding("b1", "B", "rest", "no")>>],
     [contracts |-> "h2"],
     [cases |-> <<Case("c1", "i1", {"A"}, "no"), Case("c2", "i2", {}, "yes")>>],
     [bindings |-> <<Binding("a1", "A", "tool", "no"), Binding("a2", "A", "rest", "no"),
                     Binding("b1", "B", "rest", "no")>>],
     [directs |-> [MCDirects EXCEPT ![1].transport = "qveris_connector"]],
     [directs |-> MCDirects \o <<Direct("d6", "c1", "a1", "A", "native_mcp")>>]}
=============================================================================
