---------------------------- MODULE MCPluginExec ----------------------------
EXTENDS PluginExec, SequencesExt

Document(apiVersion, kind, fits, text) ==
    [apiVersion |-> apiVersion, kind |-> kind, fits |-> fits, text |-> text]

V1 == "credentialprovider.kubelet.k8s.io/v1"
V1Alpha1 == "credentialprovider.kubelet.k8s.io/v1alpha1"

\* How a document begins: a response, one of another version, something else of the right
\* version, and a response with a field of the wrong type.
Begin(text) ==
    [response  |-> Document(V1, "CredentialProviderResponse", TRUE, text),
     old       |-> Document(V1Alpha1, "CredentialProviderResponse", TRUE, text),
     request   |-> Document(V1, "CredentialProviderRequest", TRUE, text),
     misshapen |-> Document(V1, "CredentialProviderResponse", FALSE, text)]

Heads == DOMAIN Begin("")
MCDocuments == {Begin(text)[head] : text \in {"", "text"}, head \in Heads}
MCChunks == Heads \cup {"end", "blank", "text"}

\* Blanks between the parts do not count, and text may stand within the document.
MCDecode(buffer) ==
    LET parts == SelectSeq(buffer, LAMBDA chunk : chunk # "blank")
    IN  IF Len(parts) < 2 \/ Head(parts) \notin Heads \/ Last(parts) # "end" THEN Nothing
        ELSE CASE Len(parts) = 2 -> Begin("")[Head(parts)]
               [] Len(parts) = 3 /\ parts[2] = "text" -> Begin("text")[Head(parts)]
               [] OTHER -> Nothing
=============================================================================
