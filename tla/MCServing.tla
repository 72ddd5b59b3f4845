----------------------------- MODULE MCServing -----------------------------
(* A small instance of Serving for TLC. *)
EXTENDS Serving

MCVersions == {<<"1">>, <<"1", "optional">>, <<"latest">>}
\* Nobody, the API key, and a client whose token is good in one start only.
MCCallers ==
  {[cid |-> None, k |-> FALSE, t |-> FALSE], [cid |-> None, k |-> TRUE, t |-> FALSE],
   [cid |-> "c1", k |-> FALSE, t |-> TRUE]}

MCChannels == {<<"latest">>}

Pack(private, channel, variants) ==
  [slug |-> "s1", hidden |-> FALSE, private |-> private,
   channel |-> [c \in MCChannels |-> channel], variants |-> variants]
Build(v, published, private) ==
  [pack |-> 1, ver |-> v, published |-> published, private |-> private]
Owner(full, packsOf, token) ==
  [full |-> full, csv |-> packsOf, assigned |-> packsOf, token |-> token, revoked |-> FALSE]

MCStart(pack, rows, granted, owner) ==
  [packs |-> [p \in 1..2 |-> IF p = 1 THEN pack ELSE None],
   builds |-> [b \in 1..3 |-> IF b <= Len(rows) THEN rows[b] ELSE None],
   grants |-> granted, user |-> owner]

\* A public pack with its channel set and its only build not yet published; a
\* private pack that a client, or the owner of the token, reads; a public pack
\* whose channel names one build while another has the channel's own name.
MCStarts ==
  {MCStart(Pack(FALSE, <<"1">>, {"optional"}), <<Build(<<"1">>, FALSE, FALSE)>>,
           {}, Owner(FALSE, {}, FALSE)),
   MCStart(Pack(TRUE, None, {"optional"}), <<Build(<<"1">>, TRUE, FALSE)>>,
           {<<"c1", 1>>}, Owner(FALSE, {1}, TRUE)),
   MCStart(Pack(FALSE, <<"1">>, {}),
           <<Build(<<"1">>, TRUE, FALSE), Build(<<"latest">>, TRUE, FALSE)>>,
           {}, Owner(FALSE, {1}, FALSE))}
=============================================================================
