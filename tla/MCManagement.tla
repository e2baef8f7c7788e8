---------------------------- MODULE MCManagement ----------------------------
(***************************************************************************)
(* Words of up to three characters: a plain letter, its capital, the       *)
(* Kelvin sign that Unicode folds to k, the hyphen and a dot.  The         *)
(* reserved slugs are short ones, and GenerateSlug has two outputs.        *)
(***************************************************************************)
EXTENDS Management, TLC

CONSTANTS u, w, t1, t2, c1, c2, invalid

MCLower == [ch \in Characters |-> CASE ch = "A" -> "a" [] ch = "Kelvin" -> "k"
                                    [] OTHER -> ch]

MCWords == UNION {[1..n -> Characters] : n \in 0..3}

MCApi == <<"k", "a">>

MCAdmin == <<"a", "a">>

MCWellKnown == <<".", "k">>

MCGenerated == {<<"a">>, <<"k", "k">>}

Link(slug) == [slug |-> slug, url |-> u, disabled |-> FALSE, expires |-> None,
               clicks |-> 0, last |-> None]

\* A capital, a slug that GenerateSlug may hit, and a link no create accepts.
MCBatches ==
  {<< >>, <<Link(<<"A">>), Link(<<"k", "k">>),
            [Link(<<"a", "-">>) EXCEPT !.url = invalid]>>}

Basic == [name |-> "list", slug |-> None, url |-> u, expires |-> None,
          force |-> FALSE, apply |-> FALSE, batch |-> << >>, token |-> t1]

Custom == {[Basic EXCEPT !.name = "create", !.slug = slug] :
             slug \in {<< >>, <<"A">>, <<"A", "a">>, <<"A", "-", "k">>,
                       <<"a", "-">>, <<"Kelvin">>, <<".", "k">>}}

Others ==
  {[Basic EXCEPT !.name = name, !.slug = <<"A">>] :
     name \in {"get", "disable", "delete"}}
  \cup {[Basic EXCEPT !.name = "get", !.slug = <<"A", "-">>],
        [Basic EXCEPT !.name = "delete", !.slug = <<"a">>, !.force = TRUE],
        [Basic EXCEPT !.name = "update", !.slug = <<"a">>, !.url = w],
        [Basic EXCEPT !.name = "update", !.slug = <<"a">>, !.url = invalid],
        [Basic EXCEPT !.name = "expire", !.slug = <<"a">>, !.expires = 1],
        [Basic EXCEPT !.name = "expire", !.slug = <<"a">>, !.expires = invalid],
        [Basic EXCEPT !.name = "create"],
        [Basic EXCEPT !.name = "list", !.token = None],
        [Basic EXCEPT !.name = "list", !.token = t2],
        [Basic EXCEPT !.name = "export", !.token = t2],
        [Basic EXCEPT !.name = "export"], Basic}
  \cup {[Basic EXCEPT !.name = "import", !.batch = batch, !.apply = apply] :
          batch \in MCBatches, apply \in BOOLEAN}

MCJobs == Custom \cup Others

MCRank ==
  LET digit(slug, i) == IF i > Len(slug) THEN 0
                        ELSE CASE slug[i] = "-" -> 1
                               [] slug[i] = "a" -> 2
                               [] slug[i] = "k" -> 3
  IN  [slug \in CanonicalSlugs |->
         16 * digit(slug, 1) + 4 * digit(slug, 2) + digit(slug, 3)]
=============================================================================
