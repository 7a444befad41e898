----------------------------- MODULE MC_Convert -----------------------------
(* Commands of up to three arguments of every kind, and requests written by  *)
(* hand with bodies of every shape.                                         *)
EXTENDS Convert

Value(is, v) == [is |-> is, value |-> v, filename |-> "none", type |-> FALSE]
Upload(name, typed) ==
    [is |-> "form", value |-> <<<<"@", "path">>>>, filename |-> name, type |-> typed]

Words(is, pieces) == {Value(is, <<<<p>>>>) : p \in pieces}

MCArgs ==
    UNION {
      Words("positional", {"host", "schemeless", "spaced", "invalid"}),
      Words("url", {"other"}), Words("method", {"PUT", "put"}),
      Words("header", {"X", "colonless", "nameless", "bare"}),
      Words("agent", {"a"}), Words("user", {"b"}),
      Words("proxy", {"proxy", "schemeless", "{{var}}"}),
      Words("raw", {"text", "{{var}}", "> {%", "###"}),
      Words("urlencode", {"text", "a@b"}),
      Words("form", {"text", "nameless", "<"}),
      {Value("positional", Empty), Value("method", Empty), Value("data", Empty),
       Value("form", Empty), Value("head", Empty), Value("ignored", Empty),
       Value("dropped", Empty), Value("dashes", <<<<"schemeless">>>>),
       Value("header", <<<<"X">>, <<"Y">>>>), Value("header", <<<<"X", "CR">>, <<>>>>),
       Value("header", <<<<"Content-Type", "json">>>>),
       Value("data", <<<<"@", "path">>>>), Value("binary", <<<<"@", "path">>>>),
       Value("data", <<<<"@">>>>), Value("raw", <<<<"text", "CR">>, <<"end">>>>),
       Value("raw", <<<<"<", "path">>>>),
       Value("data", <<<<"more">>, <<>>, <<"end">>>>),
       Value("data", <<<<>>, <<"text">>>>),
       Value("form", <<<<"text", ";", "rest">>>>),
       Value("form", <<<<"one">>, <<"two">>>>),
       Upload("none", FALSE), Upload("given", TRUE), Upload("empty", FALSE)}}

Req(headers, body) ==
    [method |-> <<"POST">>, url |-> <<"host">>, proxy |-> <<>>,
     headers |-> headers, body |-> body]

Lines == {<<>>, <<"text">>, <<"<", "path">>, <<"{{var}}">>, <<"@", "x">>, <<"a", ";", "b">>}
Bodies == {b \in BoundedSeq(Lines, 2) : b # <<>> /\ b[1] # <<>> /\ Last(b) # <<>>}

Field(head, content) == <<Delimiter>> \o head \o <<<<>>>> \o content
Fields ==
    {Field(<<<<"Content-Disposition">>>>, b) : b \in Bodies \cup {Empty}}
    \cup {Field(h, <<<<"<", "path">>>>) :
            h \in {<<<<"Content-Disposition", "given">>, <<"Content-Type", "part">>>>,
                   <<<<"Content-Disposition", "base">>>>}}
Forms == {f \o <<CloseDelimiter>> : f \in Fields} \cup
         {f \o g \o <<CloseDelimiter>> : f, g \in Fields}

MCWritten ==
    {Req(h, b) : h \in {<<>>, <<<<"X">>, <<"Content-Type", "json">>>>,
                        <<<<"Content-Type", "multipart">>>>},
                 b \in Bodies \cup {Empty}}
    \cup {Req(h, b) : h \in {<<FormType, <<"X">>>>}, b \in Forms}

MCPieces == STRING
MCBindings == {<<"proxy">>, <<"<", "path">>}
MCOrigins == {"host", "other", "proxy", "spaced"}
=============================================================================
