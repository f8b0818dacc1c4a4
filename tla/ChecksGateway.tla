--------------------------- MODULE ChecksGateway ----------------------------
(***************************************************************************)
(* The checks of group "gateway" of service/modeldetect/checks_gateway.go: *)
(* what each concludes from the answers o it got.  Tokens are counted as   *)
(* reported; ids and headers are reduced to the forms the code tells apart.*)
(***************************************************************************)
EXTENDS CheckResults

\* The headers of a platform or a gateway; the others only inform.
Headers == {"ratelimit-unified", "ratelimit", "amzn"}

GatewayFingerprint(headers) ==
    If("ratelimit-unified" \in headers, {Clue("unified_ratelimit", "maxpool", 4)}) \cup
    If("ratelimit" \in headers /\ "ratelimit-unified" \notin headers,
       {Clue("anthropic_ratelimit", "official", 3)}) \cup
    If("amzn" \in headers, {Clue("amzn_headers", "bedrock", 4)})

\* o: the reply to /v1/models, whether ids have the form of Bedrock, headers.
Models(o) ==
    IF o.reply # "ok" THEN Bare("unsupported", {o.reply})
    ELSE Result("passed",
                If(o.bedrock, {Clue("bedrock_model_ids", "bedrock", 3)})
                    \cup GatewayFingerprint(o.headers),
                0, FALSE, {"ok"})

\* The forms of a message id, in the order the code tries them.
MessageID ==
    [missing   |-> {},
     bedrock   |-> {Clue("msg_id_bedrock", "bedrock", 2)},
     vertex    |-> {Clue("msg_id_vertex", "vertex", 5)},
     vrtx      |-> {Clue("msg_id_vrtx_prefix", "vertex", 2)},
     rewritten |-> {Clue("msg_id_rewritten", "wrapper", 2)},
     official  |-> {Clue("msg_id_official", "info", 0)},
     foreign   |-> {Clue("msg_id_foreign", "wrapper", 3)}]

\* An id of Bedrock whose version cannot be read says nothing about the model.
ModelEcho ==
    [missing  |-> {Clue("model_echo_missing", "wrapper", 1)},
     same     |-> {},
     bedrock  |-> {Clue("model_echo_bedrock", "bedrock", 4)},
     another  |-> {Clue("model_echo_mismatch", "wrapper", 2)},
     bedrockAnother |-> {Clue("model_echo_bedrock", "bedrock", 4),
                         Clue("model_echo_mismatch", "wrapper", 2)}]

\* What a bare request costs more than its own text was put in by a gateway.
Usage(input, write) ==
    If(input >= 300, {Clue("huge_input_tokens", "kiro", 3)}) \cup
    If(input >= 60 /\ input < 300, {Clue("injected_input_tokens", "wrapper", 1)}) \cup
    If(write >= 1500, {Clue("cc_prompt_cached", "maxpool", 3)}) \cup
    If(write > 0 /\ write < 1500, {Clue("gateway_cache_write", "wrapper", 1)})

Ping(o) ==
    IF o.reply # "ok" THEN Bare(Finished(FALSE, {o.reply}), {o.reply})
    ELSE Result("passed",
                MessageID[o.id] \cup ModelEcho[o.echo] \cup Usage(o.input, o.write)
                    \cup GatewayFingerprint(o.headers),
                0, FALSE, {"ok"})

\* What later checks know of the ping.
NotSeen == [seen |-> FALSE, input |-> 0, write |-> 0]

PingSeen(o) ==
    IF o.reply = "ok" THEN [seen |-> TRUE, input |-> o.input, write |-> o.write] ELSE NotSeen

(***************************************************************************)
(* The cache chain: three requests, each prefix longer than the one before *)
(* it; r and w are the tokens read from and written to the cache.          *)
(***************************************************************************)
ChainOutcomeOfTwo(r, w) ==
    IF r[1] > 0 THEN "pre_hit"
    ELSE IF w[1] = 0 \/ r[2] = 0 THEN "never_hits"
    ELSE IF r[2] # r[1] + w[1] THEN "drift"
    ELSE IF w[2] = 0 THEN "not_extended" ELSE "passed"

ChainOutcome(r, w) ==
    IF r[1] > 0 THEN "pre_hit"
    ELSE IF w[1] = 0 THEN (IF r[2] = 0 /\ r[3] = 0 THEN "unavailable" ELSE "mismatch")
    ELSE IF r[2] = 0 THEN "never_hits"
    ELSE IF r[2] # r[1] + w[1] THEN "drift"
    ELSE IF w[2] = 0 THEN "not_extended"
    ELSE IF r[3] # r[2] + w[2] THEN "drift"
    ELSE IF w[3] = 0 THEN "not_extended"
    ELSE "passed"

ChainClue ==
    [pre_hit      |-> {Clue("cache_probe_prehit", "wrapper", 2)},
     mismatch     |-> {Clue("cache_chain_mismatch", "wrapper", 2)},
     never_hits   |-> {Clue("cache_never_hits", "wrapper", 2)},
     drift        |-> {Clue("cache_prefix_drift", "wrapper", 2)},
     not_extended |-> {Clue("cache_not_extended", "wrapper", 2)},
     unavailable  |-> {Clue("cache_probe_unavailable", "info", 0)},
     passed       |-> {Clue("cache_chain_clean", "official", 1)}]

\* The first request that fails ends the check: nothing is concluded from a part.
PingAgain(ping, replies, r, w) ==
    IF ~ping.seen THEN Bare("inconclusive", {})
    ELSE IF replies # {"ok"} THEN Bare("inconclusive", replies)
    ELSE LET outcome == ChainOutcome(r, w)
         IN Result(IF outcome = "passed" THEN "passed"
                   ELSE IF outcome = "unavailable" THEN "inconclusive" ELSE "suspicious",
                   ChainClue[outcome], 0, FALSE, replies)
=============================================================================
