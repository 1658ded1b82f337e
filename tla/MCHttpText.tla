----------------------------- MODULE MCHttpText -----------------------------
(* Small requests for TLC. *)
EXTENDS HttpText

MCLexemes ==
  {"get", "GET", "HTTP", "1", "/", ".", " ", ":", "&", "cgi-bin", CRLF, "index", "html", "HTML", "www",
   "Connection", "CONNECTION", "Keep-Alive", "KEEP-ALIVE", "Host", "ip", "port"}
MCUpper ==
  [x \in MCLexemes |->
     CASE x = "get" -> "GET" [] x = "html" -> "HTML" [] x = "Connection" -> "CONNECTION"
       [] x = "Keep-Alive" -> "KEEP-ALIVE" [] OTHER -> x]

Request(line, heads, ended) == [line |-> line, heads |-> heads, ended |-> ended]
Get(path) == <<"GET", " ">> \o path \o <<" ">> \o kHTTPVersion
KeepAlive == <<"Connection", ":", " ", "Keep-Alive">>
Host      == <<"Host", ":", "ip", ":", "port">>

\* Any first line of up to six parts, framed and not.
Parts == {<<"get">>, kHTTPVersion, <<" ">>, <<"/">>}
Lines ==
  {Request(FlattenSeq(l), h, e) : l \in BoundedSeq(Parts, 6),
                      h \in {<<>>, <<KeepAlive, Host>>}, e \in BOOLEAN}

\* Any header of up to five lexemes, behind others.
Heads ==
  {Request(Get(<<"/">>), h \o <<l>>, TRUE) :
     l \in BoundedSeq({"Connection", "Keep-Alive", ":", " "}, 5) \ {<<>>},
     h \in {<<>>, <<Host>>, <<KeepAlive>>}}

\* Any url of up to five lexemes.
Urls ==
  {Request(Get(u), <<>>, TRUE) : u \in BoundedSeq({"/", "cgi-bin", "&", ".", "html"}, 5)}

MCInputs == Lines \cup Heads \cup Urls
MCDirectory == <<"www">>
=============================================================================
