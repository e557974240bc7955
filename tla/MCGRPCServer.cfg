\* Serve with the gRPC server: the caller may cancel ctx at any point of
\* start-up, and one RPC may stay open for as long as its client likes.
CONSTANTS
    MaxRequests = 1
SPECIFICATION Spec
PROPERTY ShutdownCompletes
