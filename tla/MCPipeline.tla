----------------------------- MODULE MCPipeline ------------------------------
\* A small conversation about one subject, under a small pack.
EXTENDS Pipeline

Text(words, spelling) == [words |-> words, spelling |-> spelling]

Home  == Text(<<"i", "live", "in", "berlin", "since", "last", "year">>, 1)
Homes == Text(<<"i", "live", "in", "berlin", "since", "last", "spring">>, 1)
Jazz  == Text(<<"likes", "jazz">>, 1)
JAZZ  == Text(<<"likes", "jazz">>, 2)
Hello == Text(<<"hello">>, 1)
Again == Text(<<"please", "repeat", "that">>, 1)
If    == Text(<<"if", "she", "smokes", "would", "it">>, 1)

MCTexts == {Home, Homes, Jazz, JAZZ, Hello, Again, If}
MCOverlong == {JAZZ}
MCNear  == {{Home.words, Homes.words}}

Says(id, text) == [id |-> id, text |-> text]

MCTurns ==
    {<<Says("t1", Hello)>>, <<Says("t1", Homes)>>,
     <<Says("t1", Home), Says("t2", Jazz)>>,
     <<Says("t1", Jazz), Says("t2", JAZZ)>>,
     <<Says("t1", Again), Says("t2", Home), Says("t3", Homes)>>,
     <<Says("t1", Home), Says("t1", If), Says("t2", Jazz)>>}

Row(subject, object, cardinality, impact, corroborated) ==
    [subject |-> subject, object |-> object, cardinality |-> cardinality, impact |-> impact,
     pii |-> "none", irreversibility |-> "reversible",
     min_source_tier |-> "verified_user", requires_corroboration |-> corroborated]

MCPredicates ==
    [likes    |-> Row("patient", "text", "many", "low", FALSE),
     lives_in |-> Row("patient", "text", "one_per_time", "medium", FALSE),
     smoker   |-> Row("patient", "boolean", "one", "low", FALSE),
     allergy  |-> Row("patient", "coded", "many", "critical", TRUE),
     attended |-> Row("visit", "text", "many", "low", FALSE)]

Fact(predicate, object, quote) ==
    [subject |-> "s", predicate |-> predicate, object |-> object, quote |-> quote]

Likes  == Fact("likes", Value("str", "plain"), Jazz)
Liked  == Fact("likes", Value("str", "plain"), JAZZ)
Lives  == Fact("lives_in", Value("str", "plain"), Home)
Smokes == Fact("smoker", Value("str", "yes"), Home)
Wrong  == Fact("smoker", Value("dict", "plain"), Home)
Odd    == Fact("owns", Value("str", "plain"), Home)
Allergic == Fact("allergy", Value("str", "plain"), Home)

Attended == Fact("attended", Value("str", "plain"), Home)

MCFacts == {<<Liked, Lives>>, <<Wrong, Allergic, Odd>>, <<Attended, Likes, Smokes>>}

Hit(object, cosine) == [object |-> object, cosine |-> cosine, from |-> 1, to |-> Open]
MCHits == {Hit(Value("str", "plain"), 95), Hit(Value("str", "no"), 95),
           Hit(Value("str", "no"), 80), Hit(Value("bool", "no"), 80)}

Judged(fwd, rev, contradiction) ==
    [fwd |-> fwd, rev |-> rev, contradiction |-> contradiction]
MCJudgements == {Judged(85, 85, 0), Judged(0, 85, 0), Judged(0, 0, 30), Judged(0, 0, 65)}

\* settings.py: tau .45, .60, .78; rho .35, .70.
MCThresholds == [tau_lo |-> 45000000, tau_mid |-> 60000000, tau_hi |-> 78000000,
                 rho_lo |-> -6190, rho_hi |-> 8473]
=============================================================================
