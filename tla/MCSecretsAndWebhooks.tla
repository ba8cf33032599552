----------------------- MODULE MCSecretsAndWebhooks -----------------------
(* The situations in which webhooks and secrets are applied. *)
EXTENDS SecretsAndWebhooks

x == <<"x">>
xa == <<"x", "a">>
xb == <<"x", "b">>
xs == <<"x", "*">>
y == <<"y">>
ya == <<"y", "a">>

MCWords == {x, xa, xb, xs, y, ya}

L(key, secret, data) == [key |-> key, secret |-> secret, data |-> data]
E(key, aliases, secret, data) == [key |-> key, aliases |-> aliases, secret |-> secret, data |-> data]

WebhookLives == {
    <<>>,
    <<L(xa, "none", "d"), L(y, "old", "d")>>,
    <<L(xb, "old", "e"), L(xa, "none", "d")>>,
    <<L(y, "none", "d"), L(ya, "none", "e"), L(x, "old", "d")>>}

WebhookConfigs == {
    <<E(xs, {}, "none", "d")>>,
    <<E(xs, {}, "pass", "e"), E(y, {}, "none", "d")>>,
    <<E(y, {ya}, "pass", "d"), E(xa, {}, "none", "e")>>,
    <<E(xa, {}, "text", "d"), E(xs, {}, "none", "d")>>,
    <<E(ya, {}, Dummy, "e")>>,
    <<E(y, {x}, "none", "e"), E(xa, {}, "none", "d")>>}

SecretLives == {<<>>, <<L(x, "old", "d")>>, <<L(x, "old", "e"), L(y, "old", "d"), L(xa, "old", "d")>>}

SecretConfigs == {
    <<E(x, {}, "pass", "d")>>,
    <<E(x, {}, "text", "d"), E(y, {}, "pass", "e")>>,
    <<E(xa, {}, "pass", "d"), E(x, {}, Dummy, "d")>>,
    <<E(y, {}, "a:b:c", "d")>>}

Bare(objects) == {[i \in DOMAIN o |-> [o[i] EXCEPT !.secret = "none"]] : o \in objects}

MCLives == [webhook |-> WebhookLives, secret |-> SecretLives, variable |-> Bare(SecretLives)]
MCConfigs == [webhook |-> WebhookConfigs, secret |-> SecretConfigs, variable |-> Bare(SecretConfigs)]
=============================================================================
