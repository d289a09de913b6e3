------------------------------- MODULE MCTools -------------------------------
EXTENDS Tools

\* the sets of options a command's parser offers, with the engine's options
\* all there, or without the engine id, or with it alone, or not there; and
\* each single option the parser does not offer
OptionsOf(c) ==
    {o \in SUBSET Offered(c) :
        o \intersect Engine \in {{}, {"engineId"}, Engine \ {"engineId"}, Engine}}
    \union {{o} : o \in Security \ Offered(c)}

MCArgvs ==
    UNION {[command : {c}, version : {"2c", "3"}, options : OptionsOf(c), parses : BOOLEAN,
            env : BOOLEAN, count : IF c = "listen" THEN 0 .. MaxEvents ELSE {0}] : c \in Command}
==============================================================================
