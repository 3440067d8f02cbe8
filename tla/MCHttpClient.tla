---------------------------- MODULE MCHttpClient ----------------------------
\* The retry loop with the default of two retries and one more, against a
\* server that answers with a representative of each class of status codes
\* and with the codes on the borders of the classes.
EXTENDS HttpClient

MCStatuses == {200, 404, 429, 499, 500, 503}
=============================================================================
