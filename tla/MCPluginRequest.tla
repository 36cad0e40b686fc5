-------------------------- MODULE MCPluginRequest --------------------------
EXTENDS PluginRequest

Request(apiVersion, kind, image) == [apiVersion |-> apiVersion, kind |-> kind, image |-> image]

\* A proper request, and one for each check of it.
MCInputs == {
    Request("v1", "CredentialProviderRequest", "reg.io/app"),
    Request("v1", "CredentialProviderRequest", ""),
    Request("v1beta1", "CredentialProviderRequest", "reg.io/app"),
    Request("v1", "CredentialProviderResponse", "reg.io/app"),
    Garbage}

Document(apiVersion, kind, body) == [apiVersion |-> apiVersion, kind |-> kind, body |-> body]

\* Credentials of two sizes, an older version, and what does not decode.
MCContents == {
    Document("v1", "CredentialProviderResponse", "short"),
    Document("v1beta1", "CredentialProviderResponse", "long"),
    Document("v1", "CredentialProviderRequest", "short"),
    Garbage}
============================================================================
