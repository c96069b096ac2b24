---------------------------- MODULE MCHttpClient ----------------------------
\* Model-checking instance of HttpClient.
EXTENDS HttpClient

CRLF == <<CR, LF>>

Plain(bytes) ==
    [length |-> Len(bytes), chunked |-> FALSE, body |-> bytes, wire |-> bytes, parts |-> <<>>]
UntilClose(bytes) == [Plain(bytes) EXCEPT !.length = -1]

\* A coded body from its pieces <<kind, bytes>>.
Coded(pieces) ==
    LET bytes(p) == FlattenSeq([i \in DOMAIN p |-> p[i][2]])
        data(p) == bytes(SelectSeq(p, LAMBDA x : x[1] = "data"))
    IN [length |-> -1, chunked |-> TRUE, body |-> data(pieces), wire |-> bytes(pieces),
        parts |-> [i \in DOMAIN pieces |->
            [kind |-> pieces[i][1],
             from |-> Len(bytes(UpTo(pieces, i - 1))),
             to |-> Len(bytes(UpTo(pieces, i))),
             done |-> Len(data(UpTo(pieces, i - 1)))]]]

Chunk(size, ext, data) ==
    <<<<"size", size \o ext \o CRLF>>, <<"data", data>>, <<"end", CRLF>>>>
LastChunk(ext) == <<<<"size", <<0>> \o ext \o CRLF>>>>
NoTrailer == <<<<"trailer", CRLF>>>>

\* Bodies with bytes that look like the marks of the coding, one chunk of a
\* size of two digits, an extension, padding and a trailer.
MCResponses == <<
    Plain(<<LETTER, LF, LETTER>>),
    Plain(<<>>),
    UntilClose(<<CR, LETTER>>),
    Coded(Chunk(<<1>>, <<>>, <<0>>) \o Chunk(<<1, 0>>, <<>>, CRLF) \o LastChunk(<<>>) \o NoTrailer),
    Coded(Chunk(<<1>>, <<SPACE, SEMICOLON, 1>>, <<LF>>) \o LastChunk(<<SPACE, SEMICOLON, 1>>)
          \o <<<<"trailer", <<LETTER>> \o CRLF>>>> \o NoTrailer),
    Coded(LastChunk(<<>>) \o NoTrailer)>>
=============================================================================
