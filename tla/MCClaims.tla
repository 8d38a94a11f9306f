------------------------------ MODULE MCClaims ------------------------------
(* Five companies and the ways in which founders write: three of one name, one of them in  *)
(* the directory without a batch, and two of one batch that share their first word.        *)
EXTENDS Claims

MCSpelling == [
    Speko |-> <<<<"speko">>>>, AI |-> <<<<"ai">>>>,
    Lambda |-> <<<<"lambda">>>>, Robotics |-> <<<<"robotics">>>>, Optics |-> <<<<"optics">>>>,
    at_speko_ai |-> <<<<"speko">>, <<"ai">>>>, at_tryspeko |-> <<<<"try", "speko">>>>,
    at_lambda_ai |-> <<<<"lambda">>, <<"ai">>>>, Robots |-> <<<<"robots">>>>,
    Meet |-> <<<<"meet">>>>]

MCLength == [speko |-> 5, ai |-> 2, lambda |-> 6, robotics |-> 8, optics |-> 6, try |-> 3, robots |-> 6, meet |-> 4]

MCCodes == [F26 |-> <<"F26">>, Fall_2026 |-> <<"F26">>, X26 |-> <<"X26">>,
            Spring_2026 |-> <<"X26", "P26">>, SR007 |-> <<"SR007">>]

MCHost == [https_speko |-> "speko.com"]

MCNameOf == [speko |-> <<"Speko">>, speko_sr |-> <<"Speko">>, speko_old |-> <<"Speko">>,
             lambda |-> <<"Lambda", "Robotics">>, optics |-> <<"Lambda", "Optics">>]
MCLabelOf == [speko |-> "Fall_2026", speko_sr |-> "SR007", speko_old |-> "none",
              lambda |-> "Spring_2026", optics |-> "Spring_2026"]
MCSiteOf == [speko |-> "https_speko", speko_sr |-> "none", speko_old |-> "none",
             lambda |-> "none", optics |-> "none"]

\* What the posts of a batch contain.
Tag == [speko |-> "(YC F26)", lambda |-> "(YC X26)", optics |-> "(YC X26)", speko_sr |-> "(SR007)"]
Code == [speko |-> "F26", lambda |-> "X26", optics |-> "X26", speko_sr |-> "SR007"]
Backed(c) == IF c = "speko_sr" THEN "is part of a16z Speedrun" ELSE "is now backed by YC"
Joining(c) == IF c = "speko_sr" THEN "joining a16z Speedrun" ELSE "accepted into YC"

MCBatchIn == [w \in {Tag[c] : c \in DOMAIN Tag} \union {"F26", "X26", "SR007"} |->
                CASE w \in {"(YC F26)", "F26"} -> "F26"
                  [] w \in {"(YC X26)", "X26"} -> "X26"
                  [] OTHER -> "SR007"]
MCNoPage == <<>>
MCSiteIn == ("url" :> "https_speko")

\* The ways in which the companies are called; nobody writes about the one without a batch.
Names == [speko |-> {<<"Speko">>, <<"Speko", "AI">>, <<"at_speko_ai">>, <<"at_tryspeko">>},
          lambda |-> {<<"Lambda", "Robotics">>, <<"Lambda">>, <<"at_lambda_ai">>},
          optics |-> {<<"Lambda", "Optics">>, <<"Lambda">>},
          speko_sr |-> {<<"Speko">>}]

\* What may stand before a name: nothing, a counter, a word of a sentence, a headline.
Openings == {<<>>, <<"1/">>, <<"Meet">>, <<"Robots", ".">>}

\* A text with one of the openings, and whether it says its batch.
Shaped(c, n, openings) ==
    {<<o \o n \o <<Tag[c]>> \o e, TRUE>> :
        o \in openings, e \in {<<"we got into">>} \union
            (IF n = <<"Speko">> THEN {<<>>, <<"demo day">>} ELSE {})}
    \union {<<<<"Robots">> \o n \o <<Tag[c], ".">> \o n \o <<Backed(c)>>, TRUE>>}
    \union {<<o \o n \o <<Backed(c)>> \o e, e # <<>>>> :
        o \in openings, e \in {<<>>, <<".", Code[c]>>}}
    \union {<<<<"our company">> \o n \o <<".", Joining(c)>> \o e, e # <<>>>> :
        e \in {<<>>, <<Code[c]>>}}
    \union {<<<<"building">> \o n \o <<"and", Joining(c), Code[c]>>, TRUE>> :
        x \in {y \in {n} : n[1] \in {"at_speko_ai", "at_tryspeko", "at_lambda_ai"}}}
    \union {<<<<"learned at">> \o x, FALSE>> : x \in {n} \intersect {<<"Speko">>}}

\* Whether a post gives the website, the page it is from, and whether a company's.
Settings(c, n) ==
    {<<FALSE, <<>>, FALSE>>}
    \union (IF n \in {<<"Speko">>, <<"at_speko_ai">>} /\ c = "speko"
            THEN {<<TRUE, MCNameOf[c], TRUE>>} ELSE {})
    \union (IF c = "speko" /\ n = MCNameOf[c]
            THEN {<<FALSE, <<"Robots">>, TRUE>>, <<FALSE, MCNameOf[c], FALSE>>} ELSE {})

Written(c, n, s) ==
    {[about |-> c, name |-> n, text |-> IF s[1] THEN t[1] \o <<".", "url">> ELSE t[1],
      batch |-> IF t[2] THEN Code[c] ELSE "none",
      site |-> IF s[1] THEN "https_speko" ELSE "none",
      page |-> s[2], ofCompany |-> s[3], author |-> s[2] # <<>>] :
        t \in Shaped(c, n, IF s[2] = <<>> /\ ~s[1] /\ c # "optics" THEN Openings ELSE {<<>>})}

PostsAbout(c) == UNION {UNION {Written(c, n, s) : s \in Settings(c, n)} : n \in Names[c]}

MCPosts == UNION {PostsAbout(c) : c \in DOMAIN Names}
=============================================================================
