------------------------------- MODULE MCSite -------------------------------
(* A small instance of Site for TLC. *)
EXTENDS Site

Line(flags) == [line |-> flags, env |-> {}, command |-> TRUE, trouble |-> {}]

With(flags, troubles) == {[Line(flags) EXCEPT !.trouble = {t}] : t \in troubles}

\* Starts that end before the options are complete.
Refused ==
  {Line({"tls", Misused}), Line({"redis_max_conn_age"}),
   [Line({"tls"}) EXCEPT !.command = FALSE],
   Line({"tls_ca_crt"}), Line({"use_redis_token_cache", "port"})}

\* Every option whose value can be wrong, with what can be wrong of it, and with
\* what is wrong of another.
Wrong ==
  With({"index", "title_format", "ws_origin"},
       {"no index", "bad template", "short index", "bad title", "bad origin"})
    \cup With({"credential_file", "port"}, {"no credentials", "cut credentials", "no listener"})
    \cup With({"tls", "tls_ca_crt", "tls_key"},
              {"no ca", "short ca", "no certificate", "short certificate", "no index"})

\* Sites with each option that changes them, from the command line and from the
\* environment.
Sites ==
  {Line({}), Line({"credential", "random_url"}),
   Line({"credential_file", "use_redis_token_cache", "redis_addr", "close_signal"}),
   [Line({"tls", "index"}) EXCEPT !.env = {"tls", "tls_ca_crt", "redis_max_conn_age"}],
   [Line({"ws_origin"}) EXCEPT !.env = {"random_url"}],
   Line({"once"}), Line({"max_connection"}), Line({"once", "max_connection"})}
    \cup With({"credential", "permit_write"}, {"quote", "escape"})
    \cup With({"once", "ws_origin"}, {"other origin"})
    \cup With({"ws_origin"}, {"other origin"})

SiteInputs == Refused \cup Wrong \cup Sites

\* A limit that two windows and another one reach, one that they do not, and one
\* that lets nobody in.
SiteLimits == {1, 3, -1}

SiteWords ==
  {"/", "8bytes", "terminal", "js", "css", "api", "ws", "favicon.png",
   "auth_token.js", "config.js", "kube-config", "kube-token", "kube", "x"}
    \cup Styles \cup Bundles

\* None, one as it should be, and one without its last slash.
SiteCustomPaths == {<<>>, <<"/", "kube", "/">>, <<"/", "kube">>}

\* The index page, the terminal page, its path without the slash, and a path
\* below each.
SiteTyped ==
  {<<"/">>, <<"/", "terminal">>, <<"/", "terminal", "/", "x">>, <<"/", "x", "/">>}
=============================================================================
