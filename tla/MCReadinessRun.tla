---------------------------- MODULE MCReadinessRun -----------------------------
EXTENDS ReadinessRun

Page(u, d, n) == [url |-> <<"page", u>>, domain |-> d, score |-> n]
AskFrom(origin, dests, passport, dates, topics) ==
    [dests |-> dests, passport |-> passport, origin |-> origin, dates |-> dates,
     topics |-> topics]
Ask(dests, passport, dates, topics) == AskFrom("", dests, passport, dates, topics)

\* Page "gov" is found for safety and for entry, "who" for health and culture.
MCAnswers ==
    [safety  |-> {<<>>, <<Page("gov", "gov.pl", 1)>>,
                  <<Page("blog", "blog", 3), Page("gov", "gov.pl", 2)>>,
                  <<Page("who", "who.int", 3)>>},
     entry   |-> {<<Page("gov", "gov.pl", 3)>>, <<Page("visa", "gov.pl", 2)>>},
     health  |-> {<<Page("who", "who.int", 1), Page("blog", "blog", 1)>>},
     weather |-> {<<Page("wmo", "wmo.int", 1)>>},
     culture |-> {<<Page("who", "who.int", 2)>>, <<Page("blog", "blog", 2)>>}]

MCDomains ==
    [safety |-> {"state.gov"}, health |-> {"who.int"}, weather |-> {"wmo.int"},
     visa |-> {}, emergency |-> {}, culture |-> {"who.int"},
     origin |-> [c \in {"", "poland", "spain"} |->
                   CASE c = "poland" -> {"gov.pl"} [] c = "spain" -> {"blog"} [] OTHER -> {}]]

MCRequests ==
    {Ask(<<"x">>, "poland", "none", {"safety", "entry"}),
     Ask(<<"x", "y">>, "poland", "none", {"health", "culture"}),
     Ask(<<"x">>, "poland", "none", {"safety", "culture"}),
     AskFrom("spain", <<"x">>, "poland", "none", {"safety", "culture"}),
     Ask(<<"x">>, "", "none", {"safety", "entry"}),
     Ask(<<"x">>, "poland", "near", {"weather", "packing"}),
     Ask(<<"x">>, "poland", "none", {"health", "culture"})}
=============================================================================
