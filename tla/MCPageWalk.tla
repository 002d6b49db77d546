------------------------------ MODULE MCPageWalk ------------------------------
EXTENDS PageWalk
Token(type, tag, val) == [type |-> type, tag |-> tag, val |-> val]
HeadTokens == {Token("start", "title", ""), Token("text", "", "one"), Token("text", "", "two"),
               Token("end", "title", ""), Token("start", "h1", ""), Token("start", "h6", ""),
               Token("doctype", "", <<"html", "">>),
               Token("doctype", "", <<"xhtml 1.0", "frameset">>)}
FormTokens == {Token("start", "form", ""), Token("end", "form", ""),
               Token("selfclosing", "form", ""),
               Token("start", "input", "password"), Token("selfclosing", "input", "password"),
               Token("start", "div", ""), Token("end", "div", "")}
LinkTokens == {Token("start", "a", h) : h \in {"/a", "/a#top", "/b", "http://x/", "mailto:c"}}
MCVocabularies == {HeadTokens, FormTokens, LinkTokens}
MCTarget == [h \in {"/a", "/a#top", "/b", "http://x/", "mailto:c"} |->
                CASE h \in {"/a", "/a#top"} -> "p/a" [] h = "/b" -> "p/b"
                  [] h = "http://x/" -> "x/" [] OTHER -> Skipped]
MCSameOrigin == {"p/a", "p/b"}
=============================================================================
