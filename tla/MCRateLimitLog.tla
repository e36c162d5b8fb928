--------------------------- MODULE MCRateLimitLog ---------------------------
(* Model-checking instance of RateLimitLog. *)
EXTENDS RateLimitLog

CONSTANTS error, session, bucket, all

MCCategories == {error, session, bucket}
NoRetryAfter == [kind |-> "absent", value |-> 0]
After(kind, value) == [kind |-> kind, value |-> value]
Entry(delay, categories, namespaces) ==
    [delay |-> delay, categories |-> categories, namespaces |-> namespaces]
Says(limits, retryAfter, status) ==
    [limits |-> limits, retryAfter |-> retryAfter, status |-> status]

MCResponses ==
    { Says(<<>>, NoRetryAfter, 200),
      Says(<<>>, NoRetryAfter, 429),
      Says(<<>>, After("seconds", 1), 429),
      Says(<<>>, After("date", 4), 503),
      Says(<<>>, After("garbage", 0), 200),
      \* the header wins over retry-after and over the status
      Says(<<Entry(<<1>>, {error}, "absent")>>, After("seconds", 4), 429),
      Says(<<Entry(<<3>>, {}, "absent")>>, NoRetryAfter, 200),
      \* a later entry for the same category wins
      Says(<<Entry(<<3>>, {error}, "absent"), Entry(<<1>>, {error, session}, "absent")>>, NoRetryAfter, 200),
      Says(<<Entry(<<>>, {session}, "absent"), Entry(<<0>>, {}, "absent")>>, NoRetryAfter, 429),
      Says(<<Entry(<<2>>, {bucket}, "custom")>>, NoRetryAfter, 200),
      Says(<<Entry(<<2>>, {bucket, session}, "other")>>, NoRetryAfter, 200) }
=============================================================================
